---- MODULE Spec2Model ----
(***************************************************************************)
(* A model of the claude-code-comfyui-nodes package: the Tool Permission   *)
(* Builder, the Argument Map Builder, and the output-folder session        *)
(* protocol of the execute and scraper nodes.                              *)
(*                                                                         *)
(* Text is modelled as a sequence of one-character strings, so that the    *)
(* string operations of the code (split, strip, join, sorted, lower, the   *)
(* f-string formatting of a boolean) are computed, not assumed.            *)
(***************************************************************************)
EXTENDS Integers, Sequences, FiniteSets, TLC

\* ------------------------------------------------------------------------
\* Python string primitives
\* ------------------------------------------------------------------------

\* The characters the model uses, in ascending Unicode code-point order.
CodePoints ==
  <<" ", ",", "0", "1", "2", "3", "4", "5", "6", "7", "8", "9", ":",
    "A", "B", "C", "D", "E", "F", "G", "H", "I", "J", "K", "L", "M",
    "N", "O", "P", "Q", "R", "S", "T", "U", "V", "W", "X", "Y", "Z", "_",
    "a", "b", "c", "d", "e", "f", "g", "h", "i", "j", "k", "l", "m",
    "n", "o", "p", "q", "r", "s", "t", "u", "v", "w", "x", "y", "z", "|">>

Ord(c) == CHOOSE i \in DOMAIN CodePoints : CodePoints[i] = c

UpperCase == <<"A", "B", "C", "D", "E", "F", "G", "H", "I", "J", "K", "L", "M",
               "N", "O", "P", "Q", "R", "S", "T", "U", "V", "W", "X", "Y", "Z">>
LowerCase == <<"a", "b", "c", "d", "e", "f", "g", "h", "i", "j", "k", "l", "m",
               "n", "o", "p", "q", "r", "s", "t", "u", "v", "w", "x", "y", "z">>

\* str.lower(): every upper-case letter becomes its lower-case letter.
lower_char(c) ==
  IF \E i \in DOMAIN UpperCase : UpperCase[i] = c
  THEN LowerCase[CHOOSE i \in DOMAIN UpperCase : UpperCase[i] = c]
  ELSE c

lower(s) == [i \in DOMAIN s |-> lower_char(s[i])]

\* a < b for Python strings: lexicographic by code point, a proper prefix is less.
RECURSIVE str_lt(_, _)
str_lt(a, b) ==
  IF b = <<>> THEN FALSE
  ELSE IF a = <<>> THEN TRUE
  ELSE IF Head(a) = Head(b) THEN str_lt(Tail(a), Tail(b))
  ELSE Ord(Head(a)) < Ord(Head(b))

\* s.startswith(p)
startswith(s, p) == Len(p) <= Len(s) /\ SubSeq(s, 1, Len(p)) = p

\* text ends with piece.
endswith(text, piece) ==
  Len(piece) <= Len(text) /\ SubSeq(text, Len(text) - Len(piece) + 1, Len(text)) = piece

\* sub in s
contains(s, sub) == \E i \in 1..(Len(s) + 1) : startswith(SubSeq(s, i, Len(s)), sub)

\* s.split(sep) for a non-empty separator: the pieces between the
\* occurrences of sep, scanned left to right; always at least one piece.
RECURSIVE split_from(_, _, _)
split_from(s, sep, acc) ==
  IF s = <<>> THEN <<acc>>
  ELSE IF startswith(s, sep)
       THEN <<acc>> \o split_from(SubSeq(s, Len(sep) + 1, Len(s)), sep, <<>>)
       ELSE split_from(Tail(s), sep, Append(acc, Head(s)))

split(s, sep) == split_from(s, sep, <<>>)

\* The whitespace characters the texts of the model hold.
Whitespace == {" ", "\n", "\t"}

\* s.strip(): leading and trailing whitespace removed.
RECURSIVE lstrip(_)
lstrip(s) == IF s # <<>> /\ Head(s) \in Whitespace THEN lstrip(Tail(s)) ELSE s

RECURSIVE rstrip(_)
rstrip(s) ==
  IF s # <<>> /\ s[Len(s)] \in Whitespace THEN rstrip(SubSeq(s, 1, Len(s) - 1)) ELSE s

strip(s) == rstrip(lstrip(s))

\* sep.join(parts)
RECURSIVE join(_, _)
join(parts, sep) ==
  IF parts = <<>> THEN <<>>
  ELSE IF Len(parts) = 1 THEN parts[1]
  ELSE parts[1] \o sep \o join(Tail(parts), sep)

\* sorted(list(S)) for a set of strings: ascending by str_lt.
RECURSIVE sorted(_)
sorted(S) ==
  IF S = {} THEN <<>>
  ELSE LET m == CHOOSE x \in S : \A y \in S \ {x} : str_lt(x, y)
       IN <<m>> \o sorted(S \ {m})

Range(f) == {f[i] : i \in DOMAIN f}

\* ------------------------------------------------------------------------
\* Tool Permission Builder (claude_code_tools.py)
\* ------------------------------------------------------------------------

Comma == <<",">>

Read == <<"R","e","a","d">>
Write == <<"W","r","i","t","e">>
Edit == <<"E","d","i","t">>
MultiEdit == <<"M","u","l","t","i","E","d","i","t">>
Bash == <<"B","a","s","h">>
Grep == <<"G","r","e","p">>
Glob == <<"G","l","o","b">>
LS == <<"L","S">>
WebFetch == <<"W","e","b","F","e","t","c","h">>
WebSearch == <<"W","e","b","S","e","a","r","c","h">>
Task == <<"T","a","s","k">>

\* ClaudeCodeTools.PRESETS: preset name -> comma-separated tool names.
PRESETS ==
  [all       |-> join(<<Read, Write, Edit, MultiEdit, Bash, Grep, Glob, LS, WebFetch, WebSearch>>, Comma),
   read_only |-> join(<<Read, Grep, Glob, LS>>, Comma),
   file_ops  |-> join(<<Read, Write, Edit, MultiEdit, Grep, Glob, LS>>, Comma),
   code_dev  |-> join(<<Read, Write, Edit, MultiEdit, Bash, Grep, Glob, LS>>, Comma),
   web       |-> join(<<WebFetch, WebSearch>>, Comma),
   minimal   |-> join(<<Read, Write>>, Comma),
   none      |-> <<>>]

PresetNames == DOMAIN PRESETS

\* set(tool.strip() for tool in text.split(",") if tool.strip())
tool_set(text) == {strip(t) : t \in Range(split(text, Comma))} \ {<<>>}

toggles_apply_always(preset) == TRUE

\* if preset == "none": the toggles are consulted under this preset only.
toggles_apply(preset) == preset = "none"

\* The tools the six boolean toggles select.
toggle_set(file_read, file_write, file_edit, bash, search, web) ==
  (IF file_read THEN {Read, LS} ELSE {})
    \cup (IF file_write THEN {Write} ELSE {})
    \cup (IF file_edit THEN {Edit, MultiEdit} ELSE {})
    \cup (IF bash THEN {Bash} ELSE {})
    \cup (IF search THEN {Grep, Glob} ELSE {})
    \cup (IF web THEN {WebFetch, WebSearch} ELSE {})

format_bool_lower(b) == IF b THEN <<"t","r","u","e">> ELSE <<"f","a","l","s","e">>

\* f"{b}" for a Python bool.
format_bool(b) == IF b THEN <<"T","r","u","e">> ELSE <<"F","a","l","s","e">>

SkipMarker == <<"|","s","k","i","p","_","p","e","r","m","i","s","s","i","o","n","s",":">>

\* ClaudeCodeTools.configure_tools: the three outputs, and the sorted list
\* the outputs are joined from.
configure_tools(preset, custom_tools, remove_tools, file_read, file_write, file_edit, bash, search, web, skip_permissions) ==
  LET preset_set == tool_set(PRESETS[preset])
      toggled    == IF toggles_apply(preset)
                    THEN preset_set \cup toggle_set(file_read, file_write, file_edit,
                                                    bash, search, web)
                    ELSE preset_set
      added      == IF custom_tools # <<>>
                    THEN toggled \cup tool_set(custom_tools)
                    ELSE toggled
      kept       == IF remove_tools # <<>>
                    THEN added \ tool_set(remove_tools)
                    ELSE added
      tools_list == sorted(kept)
      tools_str  == join(tools_list, Comma)
  IN [tools_config     |-> tools_str \o SkipMarker \o format_bool(skip_permissions),
      tools_str        |-> tools_str,
      skip_permissions |-> skip_permissions,
      tools_list       |-> tools_list]

\* ------------------------------------------------------------------------
\* Execute node: command-line assembly (claude_code_execute.py)
\* ------------------------------------------------------------------------

Digits == <<"0", "1", "2", "3", "4", "5", "6", "7", "8", "9">>

\* str(n) for a non-negative int.
RECURSIVE str_int(_)
str_int(n) ==
  IF n < 10 THEN <<Digits[n + 1]>>
  ELSE str_int(n \div 10) \o <<Digits[(n % 10) + 1]>>

\* INPUT_TYPES: the default of max_turns.
DefaultMaxTurns == 8

ClaudeExe == <<"c","l","a","u","d","e">>
FlagP == <<"-","p">>
FlagMaxTurns == <<"-","-","m","a","x","-","t","u","r","n","s">>
FlagModel == <<"-","-","m","o","d","e","l">>
FlagAllowedTools == <<"-","-","a","l","l","o","w","e","d","T","o","o","l","s">>
FlagSkipPermissions == <<"-","-","d","a","n","g","e","r","o","u","s","l","y","-","s","k","i","p","-","p","e","r","m","i","s","s","i","o","n","s">>
ModelDefault == <<"d","e","f","a","u","l","t">>
ModelSonnet == <<"s","o","n","n","e","t">>
ModelOpus == <<"o","p","u","s">>
TrueLower == <<"t","r","u","e">>
FalseLower == <<"f","a","l","s","e">>
TrueText == <<"T","r","u","e">>
FalseText == <<"F","a","l","s","e">>

\* [tool.strip() for tool in tools.split(",") if tool.strip()]
tool_list_of(text) ==
  LET pieces == split(text, Comma)
  IN SelectSeq([i \in DOMAIN pieces |-> strip(pieces[i])], LAMBDA t : t # <<>>)

allowed_flags_joined(tl) ==
  IF tl = <<>> THEN <<>> ELSE <<FlagAllowedTools, join(tl, Comma)>>

\* ["--allowedTools", t] for every t of the list, in order.
RECURSIVE allowed_flags(_)
allowed_flags(tl) ==
  IF tl = <<>> THEN <<>>
  ELSE <<FlagAllowedTools, Head(tl)>> \o allowed_flags(Tail(tl))

\* ClaudeCodeExecute.execute, lines 235-260: the command line, the tool list
\* and the skip-permissions boolean recovered from the tools configuration.
\* raised: the two-name unpacking of tools.split("|skip_permissions:") gets
\* more than two pieces (ValueError), which no handler encloses.
cmd_assembly(model, max_turns, tools) ==
  LET base       == <<ClaudeExe, FlagP, FlagMaxTurns, str_int(max_turns)>>
      with_model == IF model # ModelDefault THEN base \o <<FlagModel, model>> ELSE base
      marked     == tools # <<>> /\ contains(tools, SkipMarker)
      pieces     == split(tools, SkipMarker)
      raised     == marked /\ Len(pieces) # 2
      skip       == IF marked THEN lower(pieces[2]) = TrueLower ELSE FALSE
      tools_part == IF marked THEN pieces[1] ELSE tools
      tool_list  == IF tools # <<>> THEN tool_list_of(tools_part) ELSE <<>>
  IN IF raised
     THEN [raised |-> TRUE, cmd_parts |-> <<>>, tool_list |-> <<>>,
           skip_permissions |-> FALSE, tools |-> tools]
     ELSE [raised |-> FALSE,
           cmd_parts |-> with_model \o allowed_flags(tool_list)
                           \o (IF skip THEN <<FlagSkipPermissions>> ELSE <<>>),
           tool_list |-> tool_list,
           skip_permissions |-> skip,
           tools |-> tools_part]

\* ------------------------------------------------------------------------
\* JSON text and Python values (the json module, as far as the nodes use it)
\* ------------------------------------------------------------------------

\* JSON text is a sequence of lexemes; white space between lexemes (all that
\* indent=2 adds) carries no lexeme. A string lexeme holds the characters
\* between the quotes.
Punct(c) == [kind |-> "punct", text |-> <<c>>]
StrTok(chars) == [kind |-> "string", text |-> chars]
NumTok(chars) == [kind |-> "number", text |-> chars]
NullTok == [kind |-> "literal", text |-> <<"n","u","l","l">>]

LBrace == Punct("{")
RBrace == Punct("}")
LBracket == Punct("[")
RBracket == Punct("]")
Colon == Punct(":")
CommaTok == Punct(",")

\* The text "{}".
EmptyObjectText == <<LBrace, RBrace>>

IsScalarTok(t) == t.kind \in {"string", "number", "literal"}

\* Python values: a dict is its items in insertion order, with distinct keys;
\* a list is its items with empty keys. An item's value is the lexeme of a
\* scalar, or a dict or list value for a nested container.
PyDict(items) == [type |-> "dict", items |-> items, scalar |-> NullTok]
PyList(items) == [type |-> "list", items |-> items, scalar |-> NullTok]
PyScalar(t) ==
  [type |-> IF t.kind = "string" THEN "str" ELSE IF t.kind = "number" THEN "int" ELSE "NoneType",
   items |-> <<>>, scalar |-> t]
Item(k, v) == [key |-> k, value |-> v]

EmptyDict == PyDict(<<>>)

dict_keys(d) == [i \in DOMAIN d.items |-> d.items[i].key]
dict_has(d, k) == \E i \in DOMAIN d.items : d.items[i].key = k
dict_get(d, k) == d.items[CHOOSE i \in DOMAIN d.items : d.items[i].key = k].value

\* d[k] = v: an existing key keeps its position and takes the new value, a
\* new key goes last.
dict_set(d, k, v) ==
  IF dict_has(d, k)
  THEN PyDict([i \in DOMAIN d.items |->
                 IF d.items[i].key = k THEN Item(k, v) ELSE d.items[i]])
  ELSE PyDict(Append(d.items, Item(k, v)))

\* d.update(other): d[k] = v for every item of other, in other's order.
RECURSIVE dict_update_items(_, _)
dict_update_items(d, items) ==
  IF items = <<>> THEN d
  ELSE dict_update_items(dict_set(d, Head(items).key, Head(items).value), Tail(items))

dict_update_new_keys_only(d, other) ==
  dict_update_items(d, SelectSeq(other.items, LAMBDA it : ~dict_has(d, it.key)))

dict_update(d, other) == dict_update_items(d, other.items)

DecodeError == [ok |-> FALSE, value |-> PyScalar(NullTok)]
Decoded(v) == [ok |-> TRUE, value |-> v]

\* An item value is a container (isinstance(value, (dict, list))).
IsContainer(v) == "type" \in DOMAIN v

\* The value stored for a member or an element, and the Python value of a
\* stored item.
stored(value) == IF value.type \in {"dict", "list"} THEN value ELSE value.scalar
value_of(v) == IF IsContainer(v) THEN v ELSE PyScalar(v)

ParseError == [ok |-> FALSE, value |-> PyScalar(NullTok), next |-> 0]
Parsed(v, next) == [ok |-> TRUE, value |-> v, next |-> next]

RECURSIVE loads_value(_, _), loads_members(_, _, _), loads_elements(_, _, _)

\* The value that starts at lexeme i; next is the lexeme after it.
loads_value(toks, i) ==
  IF i > Len(toks) THEN ParseError
  ELSE IF IsScalarTok(toks[i]) THEN Parsed(PyScalar(toks[i]), i + 1)
  ELSE IF toks[i] = LBrace
       THEN IF i < Len(toks) /\ toks[i + 1] = RBrace THEN Parsed(EmptyDict, i + 2)
            ELSE loads_members(toks, i + 1, EmptyDict)
  ELSE IF toks[i] = LBracket
       THEN IF i < Len(toks) /\ toks[i + 1] = RBracket THEN Parsed(PyList(<<>>), i + 2)
            ELSE loads_elements(toks, i + 1, <<>>)
  ELSE ParseError

\* The members of an object from lexeme i on: "k": v, "k": v, ... }
\* A repeated key keeps its first position and its last value.
loads_members(toks, i, d) ==
  IF i + 1 > Len(toks) \/ toks[i].kind # "string" \/ toks[i + 1] # Colon THEN ParseError
  ELSE LET v == loads_value(toks, i + 2)
       IN IF ~v.ok \/ v.next > Len(toks) THEN ParseError
          ELSE LET d2 == dict_set(d, toks[i].text, stored(v.value))
               IN IF toks[v.next] = RBrace THEN Parsed(d2, v.next + 1)
                  ELSE IF toks[v.next] = CommaTok THEN loads_members(toks, v.next + 1, d2)
                  ELSE ParseError

\* The elements of an array from lexeme i on: v, v, ... ]
loads_elements(toks, i, acc) ==
  LET v == loads_value(toks, i)
  IN IF ~v.ok \/ v.next > Len(toks) THEN ParseError
     ELSE LET acc2 == Append(acc, Item(<<>>, stored(v.value)))
          IN IF toks[v.next] = RBracket THEN Parsed(PyList(acc2), v.next + 1)
             ELSE IF toks[v.next] = CommaTok THEN loads_elements(toks, v.next + 1, acc2)
             ELSE ParseError

\* json.loads(text): one value and nothing after it; ok = FALSE stands for
\* json.JSONDecodeError.
json_loads(toks) ==
  LET r == loads_value(toks, 1)
  IN IF r.ok /\ r.next = Len(toks) + 1 THEN Decoded(r.value) ELSE DecodeError

RECURSIVE dumps_items(_, _), json_dumps(_)

dumps_items(items, keyed) ==
  IF items = <<>> THEN <<>>
  ELSE (IF keyed THEN <<StrTok(Head(items).key), Colon>> ELSE <<>>)
         \o json_dumps(value_of(Head(items).value))
         \o (IF Len(items) > 1 THEN <<CommaTok>> ELSE <<>>)
         \o dumps_items(Tail(items), keyed)

\* json.dumps(value, indent=2)
json_dumps(v) ==
  IF v.type = "dict" THEN <<LBrace>> \o dumps_items(v.items, TRUE) \o <<RBrace>>
  ELSE IF v.type = "list" THEN <<LBracket>> \o dumps_items(v.items, FALSE) \o <<RBracket>>
  ELSE <<v.scalar>>

\* ------------------------------------------------------------------------
\* Argument Map Builder (claude_code_arguments.py)
\* ------------------------------------------------------------------------

ErrorKey == <<"_","e","r","r","o","r">>
InvalidJson == StrTok(<<"I","n","v","a","l","i","d"," ","J","S","O","N">>)

Raised == [raised |-> TRUE, result_json |-> <<>>]
Returned(text) == [raised |-> FALSE, result_json |-> text]

\* result_dict.update(args): a dict is updated; a list has no update
\* (AttributeError). raised stands for the exception leaving the method.
update_result(result, args) ==
  IF result.type = "dict" THEN [raised |-> FALSE, value |-> dict_update(result, args)]
  ELSE [raised |-> TRUE, value |-> result]

\* result_dict[key] = value: a list takes no string index (TypeError).
set_result(result, key, value) ==
  IF result.type = "dict" THEN [raised |-> FALSE, value |-> dict_set(result, key, value)]
  ELSE [raised |-> TRUE, value |-> result]

keep_result(result) == [raised |-> FALSE, value |-> result]

\* ClaudeCodeArguments.build_arguments; both outputs are result_json.
build_arguments(input_mode, json_arguments, key, value, base_arguments, merge_arguments) ==
  LET base      == IF base_arguments # <<>> THEN json_loads(base_arguments)
                   ELSE Decoded(EmptyDict)
      base_dict == IF base.ok THEN base.value ELSE EmptyDict
      \* base_dict.copy(): only a dict and a list have copy (AttributeError).
      can_copy  == base_dict.type \in {"dict", "list"}
      args      == json_loads(json_arguments)
      merge     == IF merge_arguments # <<>> THEN json_loads(merge_arguments)
                   ELSE Decoded(EmptyDict)
      step      == IF input_mode = "json"
                   THEN IF ~args.ok THEN set_result(base_dict, ErrorKey, InvalidJson)
                        ELSE IF args.value.type = "dict" THEN update_result(base_dict, args.value)
                        ELSE keep_result(base_dict)
                   ELSE IF input_mode = "key_value"
                   THEN IF key # <<>> THEN set_result(base_dict, key, StrTok(value))
                        ELSE keep_result(base_dict)
                   ELSE IF input_mode = "merge"
                   THEN IF merge.ok /\ merge.value.type = "dict"
                        THEN update_result(base_dict, merge.value)
                        ELSE keep_result(base_dict)
                   ELSE keep_result(base_dict)
  IN IF ~can_copy \/ step.raised THEN Raised
     ELSE Returned(json_dumps(step.value))

\* ------------------------------------------------------------------------
\* Output-folder sessions: execute and scraper nodes
\* ------------------------------------------------------------------------

\* str.replace(old, new): every occurrence, left to right, without overlap.
replace(s, old, new) == join(split(s, old), new)

\* repr of a value inside a container: a string in quotes, None for null.
NoneText == <<"N","o","n","e">>

RECURSIVE py_repr(_), repr_items(_, _)

repr_items(items, keyed) ==
  IF items = <<>> THEN <<>>
  ELSE (IF keyed THEN <<"'">> \o Head(items).key \o <<"'", ":", " ">> ELSE <<>>)
         \o py_repr(Head(items).value)
         \o (IF Len(items) > 1 THEN <<",", " ">> ELSE <<>>)
         \o repr_items(Tail(items), keyed)

py_repr(t) ==
  IF IsContainer(t)
  THEN IF t.type = "dict" THEN <<"{">> \o repr_items(t.items, TRUE) \o <<"}">>
       ELSE <<"[">> \o repr_items(t.items, FALSE) \o <<"]">>
  ELSE IF t.kind = "string" THEN <<"'">> \o t.text \o <<"'">>
  ELSE IF t.kind = "literal" THEN NoneText
  ELSE t.text

\* str(value) for a value read from JSON.
py_str(t) ==
  IF IsContainer(t) THEN py_repr(t)
  ELSE IF t.kind = "literal" THEN NoneText ELSE t.text

replace_first_item(text, items) ==
  IF items = <<>> THEN text
  ELSE replace(text, <<"$", "{">> \o Head(items).key \o <<"}">>, py_str(Head(items).value))

RECURSIVE replace_items(_, _)
replace_items(text, items) ==
  IF items = <<>> THEN text
  ELSE replace_items(replace(text, <<"$", "{">> \o Head(items).key \o <<"}">>,
                             py_str(Head(items).value)),
                     Tail(items))

\* ClaudeCodeExecute.replace_arguments. Only json.JSONDecodeError is handled:
\* arguments that are valid JSON but no object have no items() (AttributeError
\* for a list, a number, a string, null), and the exception leaves the method.
replace_arguments(text, arguments) ==
  LET parsed == IF arguments # <<>> THEN json_loads(arguments) ELSE Decoded(EmptyDict)
  IN IF ~parsed.ok THEN [raised |-> FALSE, text |-> text]
     ELSE IF parsed.value.type # "dict" THEN [raised |-> TRUE, text |-> text]
     ELSE [raised |-> FALSE, text |-> replace_items(text, parsed.value.items)]

EnabledTag == <<"e","n","a","b","l","e","d",":">>
DisabledTag == <<"d","i","s","a","b","l","e","d",":">>
ErrorWord == <<"e","r","r","o","r">>
McpQuoteText == <<"M","C","P"," ","'">>
WasDisabledText == <<"'"," ","w","a","s"," ","d","i","s","a","b","l","e","d">>
McpConfigErrorText == <<"M","C","P"," ","c","o","n","f","i","g","u","r","a","t","i","o","n"," ","e","r","r","o","r",":"," ">>

\* s.split(":", 1)[1]: what follows the first colon.
after_colon(s) ==
  LET i == CHOOSE k \in 1..Len(s) : s[k] = ":" /\ \A j \in 1..(k - 1) : s[j] # ":"
  IN SubSeq(s, i + 1, Len(s))

setup_mcps_disabled_unrecorded(mcp_config) ==
  IF mcp_config = <<>> \/ strip(mcp_config) = <<>> THEN <<>>
  ELSE IF startswith(mcp_config, EnabledTag) \/ startswith(mcp_config, DisabledTag) THEN <<>>
  ELSE IF contains(lower(mcp_config), ErrorWord) THEN <<McpConfigErrorText \o mcp_config>>
  ELSE <<>>

\* ClaudeCodeExecute.setup_mcps_from_config: the list of setup errors. The
\* tags are tried in this order, the first that fits decides.
setup_mcps_from_config(mcp_config) ==
  IF mcp_config = <<>> \/ strip(mcp_config) = <<>> THEN <<>>
  ELSE IF startswith(mcp_config, EnabledTag) THEN <<>>
  ELSE IF startswith(mcp_config, DisabledTag)
       THEN <<McpQuoteText \o after_colon(mcp_config) \o WasDisabledText>>
  ELSE IF contains(lower(mcp_config), ErrorWord) THEN <<McpConfigErrorText \o mcp_config>>
  ELSE <<>>

\* execute, lines 226-229: the preflight runs when a signal was supplied.
mcp_preflight(mcp_config) ==
  IF mcp_config # <<>> THEN setup_mcps_from_config(mcp_config) ELSE <<>>

\* datetime.now().strftime("%Y%m%d_%H%M%S"): now is a number of seconds into
\* the day DayText.
DayText == <<"2","0","2","4","0","1","0","1">>

two_digits(n) == <<Digits[(n \div 10) + 1], Digits[(n % 10) + 1]>>

strftime(now) ==
  DayText \o <<"_">> \o two_digits(now \div 3600) \o two_digits((now \div 60) % 60)
    \o two_digits(now % 60)

\* str(uuid.uuid4())[:8]: eight hexadecimal digits, drawn at random.
UuidPrefixes == {<<"0","a","1","b","2","c","3","d">>, <<"f","f","f","f","f","f","f","f">>}

ExecutePrefix == <<"o","u","t","p","u","t","_">>
ScraperPrefix == <<"r","e","d","d","i","t","_","s","c","r","a","p","e","_">>

folder_name_without_id(prefix, now, unique_id) == prefix \o strftime(now) \o <<"_">>

\* The folder name of generate_output_folder: f"{prefix}{timestamp}_{unique_id}".
folder_name(prefix, now, unique_id) == prefix \o strftime(now) \o <<"_">> \o unique_id

makedirs_later(disk, name) == disk

\* os.makedirs(folder_path, exist_ok=True): an existing folder is kept as it is.
makedirs_emptied(disk, name) == (name :> <<>>) @@ disk

makedirs(disk, name) == IF name \in DOMAIN disk THEN disk ELSE (name :> <<>>) @@ disk

\* open(path, "w") and the write: the file is created or replaced.
write_file(disk, folder, file, content) ==
  [disk EXCEPT ![folder] = (file :> content) @@ disk[folder]]

\* self.output_base_dir and os.path.join(self.output_base_dir, name).
OutputBaseDir == <<"/","c","w","d","/","c","l","a","u","d","e","_","c","o","d","e","_","o","u","t","p","u","t","s">>
folder_path(name) == OutputBaseDir \o <<"/">> \o name

MemoryHeading == <<"#"," ","C","o","n","t","e","x","t","/","M","e","m","o","r","y","\n">>
BlankLine == <<"\n","\n">>
PreviousHeading == <<"#"," ","P","r","e","v","i","o","u","s"," ","O","u","t","p","u","t","\n">>
PreviousCreatedText == <<"P","r","e","v","i","o","u","s"," ","e","x","e","c","u","t","i","o","n"," ","c","r","e","a","t","e","d"," ","f","i","l","e","s"," ","i","n",":"," ">>
ReadAndUnderstandText == <<"R","e","a","d"," ","a","n","d"," ","u","n","d","e","r","s","t","a","n","d"," ","t","h","e","s","e"," ","f","i","l","e","s"," ","a","s"," ","c","o","n","t","e","x","t",".","\n","\n">>
CommandHeading == <<"#"," ","C","o","m","m","a","n","d","\n">>
OutputHeading == <<"#"," ","O","u","t","p","u","t"," ","I","n","s","t","r","u","c","t","i","o","n","s","\n">>
CreateAllText == <<"C","r","e","a","t","e"," ","a","l","l"," ","o","u","t","p","u","t"," ","f","i","l","e","s"," ","i","n",":"," ">>
DoNotCreateText == <<"\n","D","o"," ","n","o","t"," ","c","r","e","a","t","e"," ","f","i","l","e","s"," ","e","l","s","e","w","h","e","r","e",".">>

\* Lines 131-134.
memory_part(memory) ==
  IF memory # <<>> THEN MemoryHeading \o memory \o BlankLine ELSE <<>>

previous_part_unchecked(disk_now, previous_output) ==
  IF previous_output # <<>>
  THEN PreviousHeading \o PreviousCreatedText \o folder_path(previous_output)
         \o ReadAndUnderstandText
  ELSE <<>>

\* Lines 136-141: os.path.exists(prev_path) decides.
previous_part(disk_now, previous_output) ==
  IF previous_output # <<>> /\ previous_output \in DOMAIN disk_now
  THEN PreviousHeading \o PreviousCreatedText \o folder_path(previous_output)
         \o ReadAndUnderstandText
  ELSE <<>>

\* ClaudeCodeExecute.build_prompt; output_folder is the path of the new
\* session folder, disk_now the base output root when the prompt is built.
build_prompt(disk_now, command, memory, output_folder, previous_output) ==
  memory_part(memory) \o previous_part(disk_now, previous_output)
    \o CommandHeading \o command \o BlankLine
    \o OutputHeading \o CreateAllText \o output_folder \o DoNotCreateText

MetadataFile == "_claude_code_metadata.json"
RawOutputFile == "_claude_raw_output.txt"
RawErrorFile == "_claude_raw_error.txt"
ErrorLogFile == "error_log.txt"
RedditDataFile == "reddit_data.json"

ErrorPrefix == <<"E","r","r","o","r",":"," ">>
ExecutionErrorPrefix == <<"E","x","e","c","u","t","i","o","n"," ","e","r","r","o","r",":"," ">>
ScrapingErrorPrefix == <<"S","c","r","a","p","i","n","g"," ","e","r","r","o","r",":"," ">>

\* What a file holds: text, or the metadata object json.dump wrote.
TextContent(chars) == [text |-> chars, meta |-> [kind |-> "none"]]
MetaContent(meta) == [text |-> <<>>, meta |-> meta]

response_of_stdout_always(returncode, stdout, stderr) == stdout

\* The response of execute after the process has exited (lines 279-284).
response_of(returncode, stdout, stderr) ==
  IF returncode = 0 THEN stdout ELSE ErrorPrefix \o stderr

run_metadata_without_mcp(folder, model, max_turns, tools, returncode, arguments, mcp_config, mcp_setup_errors) ==
  [kind |-> "run", model |-> model, max_turns |-> max_turns, output_folder |-> folder,
   tools_used |-> IF tools # <<>> THEN split(tools, Comma) ELSE <<>>,
   exit_code |-> returncode, has_arguments |-> arguments # EmptyObjectText,
   mcp_config_received |-> FALSE, mcp_setup_errors |-> <<>>]

\* The metadata object of lines 287-301.
run_metadata(folder, model, max_turns, tools, returncode, arguments, mcp_config, mcp_setup_errors) ==
  [kind |-> "run", model |-> model, max_turns |-> max_turns, output_folder |-> folder,
   tools_used |-> IF tools # <<>> THEN split(tools, Comma) ELSE <<>>,
   exit_code |-> returncode, has_arguments |-> arguments # EmptyObjectText,
   mcp_config_received |-> mcp_config # <<>>, mcp_setup_errors |-> mcp_setup_errors]

\* The minimal metadata object of the handler, lines 333-338.
error_metadata(folder, message) ==
  [kind |-> "error", error |-> message, execution_time |-> 0, output_folder |-> folder]

persist_raw_only(disk, folder, metadata, stdout, stderr, fail_at) ==
  LET d2 == IF fail_at \in {"metadata", "raw_output"} \/ stdout = <<>> THEN disk
            ELSE write_file(disk, folder, RawOutputFile, TextContent(stdout))
  IN IF fail_at \in {"metadata", "raw_output", "raw_error"} \/ stderr = <<>> THEN d2
     ELSE write_file(d2, folder, RawErrorFile, TextContent(stderr))

persist_empty_too(disk, folder, metadata, stdout, stderr, fail_at) ==
  LET d1 == IF fail_at = "metadata" THEN disk
            ELSE write_file(disk, folder, MetadataFile, MetaContent(metadata))
      d2 == IF fail_at \in {"metadata", "raw_output"} THEN d1
            ELSE write_file(d1, folder, RawOutputFile, TextContent(stdout))
  IN IF fail_at \in {"metadata", "raw_output", "raw_error"} THEN d2
     ELSE write_file(d2, folder, RawErrorFile, TextContent(stderr))

\* Lines 303-315: the metadata file, then the raw output and raw error files
\* when the captured text is not empty. fail_at names the write that raises
\* (OSError), "none" when every write succeeds; the writes before it are done.
persist(disk, folder, metadata, stdout, stderr, fail_at) ==
  LET d1 == IF fail_at = "metadata" THEN disk
            ELSE write_file(disk, folder, MetadataFile, MetaContent(metadata))
      d2 == IF fail_at \in {"metadata", "raw_output"} \/ stdout = <<>> THEN d1
            ELSE write_file(d1, folder, RawOutputFile, TextContent(stdout))
      d3 == IF fail_at \in {"metadata", "raw_output", "raw_error"} \/ stderr = <<>> THEN d2
            ELSE write_file(d2, folder, RawErrorFile, TextContent(stderr))
  IN d3

\* The writes that can raise, given what was captured.
FailPoints(stdout, stderr) ==
  {"none", "metadata"} \cup (IF stdout # <<>> THEN {"raw_output"} ELSE {})
                       \cup (IF stdout = <<>> /\ stderr # <<>> THEN {"raw_error"} ELSE {})

\* ------------------------------------------------------------------------
\* Inputs of the Tool Permission Builder
\* ------------------------------------------------------------------------

\* The longest custom-add list and remove list the model enumerates.
MaxListLen == 1

SeqsUpTo(S, n) == UNION {[1..k -> S] : k \in 0..n}

\* A custom tool name that itself holds the marker the execute node splits on.
MarkedName == <<"x">> \o SkipMarker \o <<"T","r","u","e">>

\* Entries a user may type into the two comma-separated fields. To add: a
\* new tool, a blank entry, a padded lower-case name holding the marker.
\* To remove: a preset tool, the new tool with padding.
CustomPieces == {Task, <<" ">>, <<" ">> \o MarkedName}
RemovePieces == {Bash, <<" ">> \o Task \o <<" ">>}

CustomLists == SeqsUpTo(CustomPieces, MaxListLen)
RemoveLists == SeqsUpTo(RemovePieces, MaxListLen)

ToolInputs ==
  [preset : PresetNames, custom : CustomLists, remove : RemoveLists,
   file_read : BOOLEAN, file_write : BOOLEAN, file_edit : BOOLEAN,
   bash : BOOLEAN, search : BOOLEAN, web : BOOLEAN, skip_permissions : BOOLEAN]

NoToolsOut == [tools_config |-> <<>>, tools_str |-> <<>>, skip_permissions |-> FALSE,
               tools_list |-> <<>>]
NoCmd == [raised |-> FALSE, cmd_parts |-> <<>>, tool_list |-> <<>>,
          skip_permissions |-> FALSE, tools |-> <<>>]

\* ------------------------------------------------------------------------
\* Inputs of the Argument Map Builder
\* ------------------------------------------------------------------------

\* The most members an enumerated JSON object text has (keys may repeat).
MaxPairs == 2

KeyA == <<"A">>
KeyB == <<"B">>
KeyC == <<"C">>

Members == {Item(k, StrTok(v)) : k \in {KeyA, KeyB}, v \in {<<"1">>, <<"2">>}}

ObjText(members) == <<LBrace>> \o dumps_items(members, TRUE) \o <<RBrace>>

ObjectTexts == {ObjText(ms) : ms \in SeqsUpTo(Members, MaxPairs)}

\* Texts json.loads rejects: an object that is not closed, a trailing comma.
MalformedTexts ==
  {<<LBrace, StrTok(KeyA), Colon, StrTok(<<"1">>)>>,
   <<LBrace, StrTok(KeyA), Colon, StrTok(<<"1">>), CommaTok, RBrace>>}

\* Valid JSON that is no object: [1], 5, null.
NonObjectTexts ==
  {<<LBracket, NumTok(<<"1">>), RBracket>>, <<NumTok(<<"5">>)>>, <<NullTok>>}

JsonTexts == ObjectTexts \cup MalformedTexts \cup NonObjectTexts \cup {<<>>}

\* Values for a field the selected mode does not read.
UnreadTexts == {ObjText(<<>>), <<LBrace, StrTok(KeyA), Colon, StrTok(<<"1">>)>>}

ArgInputs ==
  [input_mode : {"json"}, json_arguments : JsonTexts, base_arguments : JsonTexts,
   merge_arguments : UnreadTexts, key : {<<>>, KeyA}, value : {<<"1">>}]
  \cup
  [input_mode : {"key_value"}, json_arguments : UnreadTexts, base_arguments : JsonTexts,
   merge_arguments : UnreadTexts, key : {<<>>, KeyA, KeyC}, value : {<<"1">>, <<"9">>}]
  \cup
  [input_mode : {"merge"}, json_arguments : UnreadTexts, base_arguments : JsonTexts,
   merge_arguments : JsonTexts, key : {<<>>, KeyA}, value : {<<"1">>}]

NoArgIn == [input_mode |-> "json", json_arguments |-> <<>>, base_arguments |-> <<>>,
            merge_arguments |-> <<>>, key |-> <<>>, value |-> <<>>]

\* The metadata object of the scraper, lines 487-506.
scrape_metadata(folder, model, item_count, files) ==
  [kind |-> "scrape", model |-> model, folder |-> folder, items_scraped |-> item_count,
   files |-> files]

\* ------------------------------------------------------------------------
\* Inputs and outcomes of the execute and scraper nodes
\* ------------------------------------------------------------------------

\* Wall-clock seconds the model lets pass.
MaxClock == 1

Calls == {"c1", "c2"}

CommandText == <<"d","o"," ","$","{","A","}">>

\* The signature default of tools (no marker), a Tool Permission Builder
\* output, and a text that holds the marker twice.
DefaultTools == join(<<Read, Write, Edit, MultiEdit, Bash, Grep, Glob>>, Comma)
BuilderTools == Read \o Comma \o Write \o SkipMarker \o <<"T","r","u","e">>
TwiceMarkedTools == MarkedName \o SkipMarker \o <<"F","a","l","s","e">>

\* Inputs of execute: arguments that are an object, are not JSON, are JSON but
\* no object ([1]); tools without the marker, with it, with it twice.
ExecInputs ==
  {[command |-> CommandText, arguments |-> ObjText(<<Item(KeyA, StrTok(<<"1">>))>>),
    tools |-> DefaultTools, model |-> ModelSonnet, max_turns |-> DefaultMaxTurns, mcp_config |-> <<>>, memory |-> <<>>, previous_output |-> <<>>],
   [command |-> CommandText, arguments |-> <<LBrace, StrTok(KeyA), Colon, StrTok(<<"1">>)>>,
    tools |-> BuilderTools, model |-> ModelDefault, max_turns |-> DefaultMaxTurns,
    mcp_config |-> <<>>, memory |-> <<>>, previous_output |-> <<>>],
   [command |-> CommandText, arguments |-> <<LBracket, NumTok(<<"1">>), RBracket>>,
    tools |-> DefaultTools, model |-> ModelDefault, max_turns |-> DefaultMaxTurns,
    mcp_config |-> <<>>, memory |-> <<>>, previous_output |-> <<>>],
   [command |-> CommandText, arguments |-> EmptyObjectText, tools |-> TwiceMarkedTools,
    model |-> ModelDefault, max_turns |-> DefaultMaxTurns, mcp_config |-> <<>>, memory |-> <<>>, previous_output |-> <<>>]}

\* MCP configuration signals: none, blank, the MCP Manager's tags, an enabled
\* server whose name holds the word error, and the word in capitals.
McpName == <<"p","w">>
McpSignals ==
  {<<>>, <<" ">>, EnabledTag \o McpName, DisabledTag \o McpName,
   EnabledTag \o ErrorWord \o <<"-">> \o McpName, ErrorWord,
   <<"M","C","P"," ","E","R","R","O","R">>, <<"l","i","s","t","e","d">>}

\* Inputs of execute that differ in the signal and in whether the command
\* line can be assembled.
PreflightInputs ==
  {[command |-> CommandText, arguments |-> EmptyObjectText, tools |-> tools,
    model |-> ModelDefault, max_turns |-> DefaultMaxTurns, mcp_config |-> mcp_config,
    memory |-> <<>>, previous_output |-> <<>>] :
     tools \in {DefaultTools, TwiceMarkedTools}, mcp_config \in McpSignals}

ReturnCodes == {0, 1}
Stdouts == {<<>>, <<"o","u","t">>}
Stderrs == {<<>>, <<"e","r","r">>}

\* str(e) of the exception subprocess.run or a file write raises.
SpawnErrorText == <<"N","o"," ","s","u","c","h"," ","f","i","l","e">>
WriteErrorText == <<"P","e","r","m","i","s","s","i","o","n"," ","d","e","n","i","e","d">>
TimeoutText == <<"S","c","r","a","p","i","n","g"," ","t","i","m","e","o","u","t"," ","a","f","t","e","r"," ","1","0"," ","m","i","n","u","t","e","s"," ","-"," ","R","e","d","d","i","t"," ","m","i","g","h","t"," ","b","e"," ","s","l","o","w"," ","o","r"," ","t","h","e"," ","r","e","q","u","e","s","t"," ","i","s"," ","t","o","o"," ","c","o","m","p","l","e","x">>
McpFailedText == <<"F","a","i","l","e","d"," ","t","o"," ","c","o","n","f","i","g","u","r","e"," ","P","l","a","y","w","r","i","g","h","t"," ","M","C","P">>

\* reddit_data.json as the external process may leave it: a list of two posts.
ScrapedListText == <<LBracket, NumTok(<<"1">>), CommaTok, NumTok(<<"2">>), RBracket>>

NoMeta == [kind |-> "none"]

\* No sub-command has run.
NoRun == [raised |-> FALSE, returncode |-> 0, stdout |-> <<>>, stderr |-> <<>>]

NoCall ==
  [kind |-> "none", pc |-> "idle", command |-> <<>>, arguments |-> <<>>, tools |-> <<>>,
   model |-> <<>>, folder |-> <<>>, now |-> 0, unique_id |-> <<>>, outcome |-> "none",
   exited |-> FALSE, returncode |-> 0, stdout |-> <<>>, stderr |-> <<>>, response |-> <<>>,
   metadata |-> NoMeta, mcp_config |-> <<>>, mcp_setup_errors |-> <<>>,
   mcp_list |-> NoRun, mcp_log |-> <<>>,
   max_turns |-> 0, memory |-> <<>>, previous_output |-> <<>>, prompt |-> <<>>,
   cmd_parts |-> <<>>, cwd |-> <<>>, source |-> <<>>, url |-> <<>>,
   tools_config |-> <<>>, raw_command |-> <<>>, raw_memory |-> <<>>,
   result |-> [output_folder |-> <<>>, output_response |-> <<>>, output_error |-> <<>>,
               metadata |-> NoMeta, scraped_data |-> EmptyDict, summary |-> <<>>,
               item_count |-> 0]]

\* ------------------------------------------------------------------------
\* MCP Manager (claude_code_mcp.py)
\* ------------------------------------------------------------------------

\* What subprocess.run gives for one sub-command of the external CLI: raised
\* stands for an exception of subprocess.run (the executable is missing),
\* stdout is JSON text, stderr is plain text.
RunRaised == [raised |-> TRUE, returncode |-> 0, stdout |-> <<>>, stderr |-> <<>>]
RunExited(returncode, stdout, stderr) ==
  [raised |-> FALSE, returncode |-> returncode, stdout |-> stdout, stderr |-> stderr]

\* One entry of the record of sub-commands invoked, in order.
Invoked(sub, config, run) ==
  [sub |-> sub, config |-> config, raised |-> run.raised, returncode |-> run.returncode]

\* ClaudeCodeMCP.get_mcp_list: whatever JSON value the CLI printed on exit
\* code 0; the empty list on a non-zero exit, on output that is not JSON and
\* on a failure to spawn.
get_mcp_list(list_run) ==
  IF list_run.raised \/ list_run.returncode # 0 THEN PyList(<<>>)
  ELSE LET parsed == json_loads(list_run.stdout)
       IN IF parsed.ok THEN parsed.value ELSE PyList(<<>>)

\* "for mcp in mcp_list": the elements of a list, the keys of a dict, the
\* characters of a string; any other value is not iterable (TypeError).
iter_items(v) ==
  IF v.type = "list" THEN [ok |-> TRUE, elems |-> [i \in DOMAIN v.items |-> v.items[i].value]]
  ELSE IF v.type = "dict"
       THEN [ok |-> TRUE, elems |-> [i \in DOMAIN v.items |-> StrTok(v.items[i].key)]]
  ELSE IF v.type = "str"
       THEN [ok |-> TRUE, elems |-> [i \in DOMAIN v.scalar.text |-> StrTok(<<v.scalar.text[i]>>)]]
  ELSE [ok |-> FALSE, elems |-> <<>>]

\* mcp.get exists on a dict only (AttributeError otherwise).
has_get(elem) == IsContainer(elem) /\ elem.type = "dict"

\* mcp.get(key, default)
get_or(elem, key, default) == IF dict_has(elem, key) THEN dict_get(elem, key) ELSE default

\* bool(value) of a stored item value.
truthy(v) ==
  IF IsContainer(v) THEN v.items # <<>>
  ELSE IF v.kind = "string" THEN v.text # <<>>
  ELSE IF v.kind = "number" THEN v.text # <<"0">>
  ELSE FALSE

\* ' '.join(args): args must be an iterable of strings (TypeError otherwise).
join_args(args) ==
  LET it == iter_items(value_of(args))
  IN IF ~it.ok \/ \E i \in DOMAIN it.elems :
                     IsContainer(it.elems[i]) \/ it.elems[i].kind # "string"
     THEN [raised |-> TRUE, text |-> <<>>]
     ELSE [raised |-> FALSE,
           text |-> join([i \in DOMAIN it.elems |-> it.elems[i].text], <<" ">>)]

NameKey == <<"n","a","m","e">>
CommandKey == <<"c","o","m","m","a","n","d">>
ArgsKey == <<"a","r","g","s">>
ConfiguredText == <<"C","o","n","f","i","g","u","r","e","d"," ","M","C","P","s",":">>
NewLine == <<"\n">>

\* Lines 76-79: the names format.
names_info(mcp_list) ==
  LET it == iter_items(mcp_list)
  IN IF ~it.ok \/ \E i \in DOMAIN it.elems : ~has_get(it.elems[i])
     THEN [raised |-> TRUE, text |-> <<>>]
     ELSE [raised |-> FALSE,
           text |-> ConfiguredText \o NewLine
                      \o join([i \in DOMAIN it.elems |->
                                 <<"-"," ">> \o py_str(get_or(it.elems[i], NameKey, StrTok(<<>>)))],
                              NewLine)]

\* Lines 82-88: the full format, one element after the other.
RECURSIVE full_parts(_, _)
full_parts(elems, parts) ==
  IF elems = <<>> THEN [raised |-> FALSE, parts |-> parts]
  ELSE LET mcp == Head(elems)
       IN IF ~has_get(mcp) THEN [raised |-> TRUE, parts |-> parts]
          ELSE LET two == parts
                            \o <<<<"\n","-"," ">> \o py_str(get_or(mcp, NameKey, StrTok(<<"U","n","k","n","o","w","n">>))),
                                 <<" "," ","C","o","m","m","a","n","d",":"," ">> \o py_str(get_or(mcp, CommandKey, StrTok(<<"N","/","A">>)))>>
                   args == get_or(mcp, ArgsKey, NullTok)
               IN IF ~truthy(args) THEN full_parts(Tail(elems), two)
                  ELSE LET joined == join_args(args)
                       IN IF joined.raised THEN [raised |-> TRUE, parts |-> two]
                          ELSE full_parts(Tail(elems),
                                          Append(two, <<" "," ","A","r","g","s",":"," ">> \o joined.text))

full_info(mcp_list) ==
  LET it == iter_items(mcp_list)
  IN IF ~it.ok THEN [raised |-> TRUE, text |-> <<>>]
     ELSE LET built == full_parts(it.elems, <<ConfiguredText>>)
          IN [raised |-> built.raised, text |-> join(built.parts, NewLine)]

\* The example configurations of lines 135-157.
ListOfStrings(texts) == PyList([i \in DOMAIN texts |-> Item(<<>>, StrTok(texts[i]))])

Examples ==
  PyDict(<<
    Item(<<"s","l","a","c","k">>, PyDict(<<
      Item(CommandKey, StrTok(<<"n","p","x">>)),
      Item(ArgsKey, ListOfStrings(<<<<"-","y">>, <<"s","l","a","c","k","-","m","c","p","-","s","e","r","v","e","r","@","l","a","t","e","s","t">>, <<"-","-","t","r","a","n","s","p","o","r","t">>, <<"s","t","d","i","o">>>>)),
      Item(<<"e","n","v">>, PyDict(<<Item(<<"S","L","A","C","K","_","M","C","P","_","X","O","X","C","_","T","O","K","E","N">>, StrTok(<<"y","o","u","r","-","x","o","x","c","-","t","o","k","e","n">>)),
                            Item(<<"S","L","A","C","K","_","M","C","P","_","X","O","X","D","_","T","O","K","E","N">>, StrTok(<<"y","o","u","r","-","x","o","x","d","-","t","o","k","e","n">>))>>))>>)),
    Item(<<"b","r","o","w","s","e","r","-","t","o","o","l","s">>, PyDict(<<Item(CommandKey, StrTok(<<"b","r","o","w","s","e","r","-","t","o","o","l","s","-","m","c","p">>))>>)),
    Item(<<"n","o","t","i","o","n">>, PyDict(<<
      Item(CommandKey, StrTok(<<"n","o","t","i","o","n","-","m","c","p","-","s","e","r","v","e","r">>)),
      Item(<<"e","n","v">>, PyDict(<<Item(<<"N","O","T","I","O","N","_","T","O","K","E","N">>, StrTok(<<"y","o","u","r","-","n","o","t","i","o","n","-","t","o","k","e","n">>))>>))>>)),
    Item(<<"f","i","g","m","a">>, PyDict(<<
      Item(CommandKey, StrTok(<<"f","i","g","m","a","-","d","e","v","e","l","o","p","e","r","-","m","c","p">>)),
      Item(ArgsKey, ListOfStrings(<<<<"-","-","f","i","g","m","a","-","a","p","i","-","k","e","y","=","y","o","u","r","-","a","p","i","-","k","e","y">>, <<"-","-","s","t","d","i","o">>>>))>>))>>)

ListedTag == <<"l","i","s","t","e","d">>
ConfigTag == <<"c","o","n","f","i","g">>

\* What manage_mcp returns: the three outputs (info is plain text followed by
\* JSON text), the sub-commands it invoked, and whether an exception left it.
McpResult(info, info_json, tag, data, log) ==
  [raised |-> FALSE, info |-> info, info_json |-> info_json, tag |-> tag, data |-> data,
   log |-> log]
McpRaised(log) ==
  [raised |-> TRUE, info |-> <<>>, info_json |-> <<>>, tag |-> <<>>, data |-> PyList(<<>>),
   log |-> log]
McpError(info, log) == McpResult(info, <<>>, ErrorWord, PyList(<<>>), log)

\* Lines 73-92.
list_action(list_format, list_run) ==
  LET mcp_list == get_mcp_list(list_run)
      log      == <<Invoked("list", <<>>, list_run)>>
      info     == IF list_format = "names" THEN names_info(mcp_list)
                  ELSE IF list_format = "full" THEN full_info(mcp_list)
                  ELSE [raised |-> FALSE, text |-> <<>>]
  IN IF info.raised THEN McpRaised(log)
     ELSE McpResult(info.text,
                    IF list_format \in {"names", "full"} THEN <<>> ELSE json_dumps(mcp_list),
                    ListedTag, mcp_list, log)

enable_action_silent_fallback(mcp_name, mcp_config, add_run, list_run) ==
  IF mcp_name = <<>> THEN McpError(<<"E","r","r","o","r",":"," ","M","C","P"," ","n","a","m","e"," ","r","e","q","u","i","r","e","d">>, <<>>)
  ELSE IF add_run.raised
       THEN McpError(<<"E","r","r","o","r",":"," ">> \o SpawnErrorText, <<Invoked("add-json", EmptyObjectText, add_run)>>)
  ELSE IF add_run.returncode = 0
       THEN McpResult(<<"S","u","c","c","e","s","s","f","u","l","l","y"," ","e","n","a","b","l","e","d"," ","M","C","P",":"," ">> \o mcp_name, <<>>, EnabledTag \o mcp_name,
                      get_mcp_list(list_run),
                      <<Invoked("add-json", EmptyObjectText, add_run), Invoked("list", <<>>, list_run)>>)
  ELSE McpError(<<"E","r","r","o","r"," ","e","n","a","b","l","i","n","g"," ","M","C","P",":"," ">> \o add_run.stderr, <<Invoked("add-json", EmptyObjectText, add_run)>>)

\* Lines 94-115.
enable_action(mcp_name, mcp_config, add_run, list_run) ==
  LET config == IF mcp_config # <<>> THEN json_loads(mcp_config) ELSE Decoded(EmptyDict)
  IN IF mcp_name = <<>> THEN McpError(<<"E","r","r","o","r",":"," ","M","C","P"," ","n","a","m","e"," ","r","e","q","u","i","r","e","d">>, <<>>)
     ELSE IF ~config.ok THEN McpError(<<"E","r","r","o","r",":"," ","I","n","v","a","l","i","d"," ","J","S","O","N"," ","c","o","n","f","i","g","u","r","a","t","i","o","n">>, <<>>)
     ELSE IF add_run.raised
          THEN McpError(<<"E","r","r","o","r",":"," ">> \o SpawnErrorText, <<Invoked("add-json", json_dumps(config.value), add_run)>>)
     ELSE IF add_run.returncode = 0
          THEN McpResult(<<"S","u","c","c","e","s","s","f","u","l","l","y"," ","e","n","a","b","l","e","d"," ","M","C","P",":"," ">> \o mcp_name, <<>>, EnabledTag \o mcp_name,
                         get_mcp_list(list_run),
                         <<Invoked("add-json", json_dumps(config.value), add_run), Invoked("list", <<>>, list_run)>>)
     ELSE McpError(<<"E","r","r","o","r"," ","e","n","a","b","l","i","n","g"," ","M","C","P",":"," ">> \o add_run.stderr, <<Invoked("add-json", json_dumps(config.value), add_run)>>)

\* Lines 117-131.
disable_action(mcp_name, remove_run, list_run) ==
  IF mcp_name = <<>> THEN McpError(<<"E","r","r","o","r",":"," ","M","C","P"," ","n","a","m","e"," ","r","e","q","u","i","r","e","d">>, <<>>)
  ELSE IF remove_run.raised
       THEN McpError(<<"E","r","r","o","r",":"," ">> \o SpawnErrorText, <<Invoked("remove", <<>>, remove_run)>>)
  ELSE IF remove_run.returncode = 0
       THEN McpResult(<<"S","u","c","c","e","s","s","f","u","l","l","y"," ","d","i","s","a","b","l","e","d"," ","M","C","P",":"," ">> \o mcp_name, <<>>, DisabledTag \o mcp_name,
                      get_mcp_list(list_run),
                      <<Invoked("remove", <<>>, remove_run), Invoked("list", <<>>, list_run)>>)
  ELSE McpError(<<"E","r","r","o","r"," ","d","i","s","a","b","l","i","n","g"," ","M","C","P",":"," ">> \o remove_run.stderr, <<Invoked("remove", <<>>, remove_run)>>)

\* Lines 133-162.
config_action ==
  McpResult(<<"E","x","a","m","p","l","e"," ","M","C","P"," ","C","o","n","f","i","g","u","r","a","t","i","o","n","s",":","\n","\n">>, json_dumps(Examples), ConfigTag,
            PyList(<<Item(<<>>, Examples)>>), <<>>)

\* ClaudeCodeMCP.manage_mcp; run is what the sub-command of the action gives
\* (add-json for enable, remove for disable), list_run what the list
\* sub-command gives.
manage_mcp(action, mcp_name, mcp_config, list_format, run, list_run) ==
  IF action = "list" THEN list_action(list_format, list_run)
  ELSE IF action = "enable" THEN enable_action(mcp_name, mcp_config, run, list_run)
  ELSE IF action = "disable" THEN disable_action(mcp_name, run, list_run)
  ELSE IF action = "config" THEN config_action
  ELSE McpError(<<"U","n","k","n","o","w","n"," ","a","c","t","i","o","n">>, <<>>)

\* ------------------------------------------------------------------------
\* Inputs of the MCP Manager and outcomes of the external CLI
\* ------------------------------------------------------------------------

McpActions == {"list", "enable", "disable", "config"}
McpNames == {<<>>, McpName}
ListFormats == {"names", "full", "json"}

\* Configuration texts: empty, "{}", an object, and a text that is not JSON.
McpConfigTexts ==
  {<<>>, EmptyObjectText, <<LBrace, StrTok(CommandKey), Colon, StrTok(<<"n","p","x">>), RBrace>>,
   <<LBrace, StrTok(CommandKey)>>}

McpInputs ==
  [action : McpActions, mcp_name : McpNames, mcp_config : McpConfigTexts,
   list_format : ListFormats]

FailedText == <<"b","o","o","m">>

\* The add-json or remove sub-command: not spawned, exit 0, exit 1.
RunOutcomes == {RunRaised, RunExited(0, <<>>, <<>>), RunExited(1, <<>>, FailedText)}

\* What "claude mcp list --json" may print on exit 0: a list of objects (empty,
\* with and without a name), text that is not JSON, an object keyed by server
\* name, a list of numbers, a number.
ListStdouts ==
  {<<LBracket, RBracket>>,
   <<LBracket, LBrace, StrTok(NameKey), Colon, StrTok(McpName), CommaTok,
     StrTok(CommandKey), Colon, StrTok(<<"n","p","x">>), CommaTok,
     StrTok(ArgsKey), Colon, LBracket, StrTok(<<"-","y">>), CommaTok, StrTok(McpName), RBracket,
     RBrace, RBracket>>,
   <<LBracket, LBrace, StrTok(CommandKey), Colon, StrTok(<<"n","p","x">>), RBrace, RBracket>>,
   <<LBracket>>,
   <<LBrace, StrTok(McpName), Colon, LBrace, StrTok(CommandKey), Colon, StrTok(<<"n","p","x">>),
     RBrace, RBrace>>,
   <<LBracket, NumTok(<<"1">>), RBracket>>,
   <<NumTok(<<"5">>)>>}

ListOutcomes ==
  {RunRaised, RunExited(1, <<>>, FailedText)}
    \cup {RunExited(0, stdout, <<>>) : stdout \in ListStdouts}

NoMcpIn == [action |-> "config", mcp_name |-> <<>>, mcp_config |-> <<>>, list_format |-> "names"]
NoMcpOut == McpResult(<<>>, <<>>, <<>>, PyList(<<>>), <<>>)

\* ------------------------------------------------------------------------
\* Memory Builder (claude_code_memory.py)
\* ------------------------------------------------------------------------

\* The file a path names: missing, present but failing to be read (open or
\* read raises), or present with its content.
MissingFile == [exists |-> FALSE, readable |-> FALSE, content |-> <<>>]
UnreadableFile == [exists |-> TRUE, readable |-> FALSE, content |-> <<>>]
ReadableFile(content) == [exists |-> TRUE, readable |-> TRUE, content |-> content]

CustomMemory == <<"[","C","u","s","t","o","m"," ","M","e","m","o","r","y","]">>
Separator == <<"\n","\n">>
AdditionalContextHeading == <<"#","#"," ","A","d","d","i","t","i","o","n","a","l"," ","C","o","n","t","e","x","t","\n","\n">>
FileContentHeading == <<"#","#"," ","F","i","l","e"," ","C","o","n","t","e","n","t","\n","\n">>

\* str(e) of the exception open or read raises.
ReadErrorText == <<"P","e","r","m","i","s","s","i","o","n"," ","d","e","n","i","e","d">>

\* Lines 90-105: the memory_file mode.
memory_file_part(memory_file, text_memory, file) ==
  IF memory_file # CustomMemory
  THEN IF file.exists
       THEN IF file.readable THEN <<file.content>>
            ELSE <<<<"E","r","r","o","r"," ","r","e","a","d","i","n","g"," ","m","e","m","o","r","y"," ","f","i","l","e"," ">> \o memory_file \o <<":"," ">> \o ReadErrorText>>
       ELSE <<<<"E","r","r","o","r",":"," ","M","e","m","o","r","y"," ","f","i","l","e"," ","n","o","t"," ","f","o","u","n","d",":"," ">> \o memory_file>>
  ELSE IF text_memory # <<>> THEN <<text_memory>> ELSE <<>>

file_part_silent(file_path, file) ==
  IF file_path # <<>> /\ file.exists /\ file.readable THEN <<file.content>> ELSE <<>>

\* Lines 107-116: the file mode.
file_part(file_path, file) ==
  IF file_path # <<>> /\ file.exists
  THEN IF file.readable THEN <<file.content>>
       ELSE <<<<"E","r","r","o","r"," ","r","e","a","d","i","n","g"," ","f","i","l","e"," ">> \o file_path \o <<":"," ">> \o ReadErrorText>>
  ELSE IF file_path # <<>> THEN <<<<"E","r","r","o","r",":"," ","F","i","l","e"," ","n","o","t"," ","f","o","u","n","d",":"," ">> \o file_path>>
  ELSE <<>>

\* Lines 133-140: the file of the combined mode; a missing file adds nothing.
combined_file_part(file_path, file) ==
  IF file_path # <<>> /\ file.exists
  THEN IF file.readable THEN <<FileContentHeading, file.content>>
       ELSE <<<<"E","r","r","o","r"," ","r","e","a","d","i","n","g"," ","f","i","l","e",":"," ">> \o ReadErrorText>>
  ELSE <<>>

combined_parts_file_first(text_memory, file_path, claude_md_content, file) ==
  combined_file_part(file_path, file)
    \o (IF text_memory # <<>> THEN <<AdditionalContextHeading, text_memory, Separator>>
        ELSE <<>>)
    \o (IF claude_md_content # <<>> THEN <<claude_md_content, Separator>> ELSE <<>>)

\* Lines 122-140: the combined mode.
combined_parts(text_memory, file_path, claude_md_content, file) ==
  (IF claude_md_content # <<>> THEN <<claude_md_content, Separator>> ELSE <<>>)
    \o (IF text_memory # <<>> THEN <<AdditionalContextHeading, text_memory, Separator>>
        ELSE <<>>)
    \o combined_file_part(file_path, file)

\* ClaudeCodeMemory.build_memory; file is what the named path holds. Both
\* outputs are the same text.
build_memory(memory_type, memory_file, text_memory, file_path, claude_md_content, append_to, file) ==
  LET prior == IF append_to # <<>> THEN <<append_to, Separator>> ELSE <<>>
      parts == IF memory_type = "text"
               THEN IF text_memory # <<>> THEN <<text_memory>> ELSE <<>>
               ELSE IF memory_type = "memory_file"
               THEN memory_file_part(memory_file, text_memory, file)
               ELSE IF memory_type = "file" THEN file_part(file_path, file)
               ELSE IF memory_type = "claude_md"
               THEN IF claude_md_content # <<>> THEN <<claude_md_content>> ELSE <<>>
               ELSE IF memory_type = "combined"
               THEN combined_parts(text_memory, file_path, claude_md_content, file)
               ELSE <<>>
  IN strip(join(prior \o parts, <<>>))

\* ------------------------------------------------------------------------
\* Inputs of the Memory Builder
\* ------------------------------------------------------------------------

MemoryTypes == {"text", "memory_file", "file", "claude_md", "combined"}
MemoryFiles == {CustomMemory, <<"n","o","t","e","s",".","m","d">>}
TextMemories == {<<>>, <<"X">>}
FilePaths == {<<>>, <<"f",".","m","d">>}

\* Template content: none, plain, with a leading blank line, the widget default.
TemplateContents == {<<>>, <<"T">>, <<"\n","T">>, <<"#"," ","P","r","o","j","e","c","t"," ","C","o","n","t","e","x","t","\n","\n">>}
PriorMemories == {<<>>, <<"P">>}

\* The named file: missing, unreadable, holding F, holding F and a final
\* newline, empty.
FileStates ==
  {MissingFile, UnreadableFile, ReadableFile(<<"F">>), ReadableFile(<<"F","\n">>), ReadableFile(<<>>)}

MemoryInputs ==
  [memory_type : MemoryTypes, memory_file : MemoryFiles, text_memory : TextMemories,
   file_path : FilePaths, claude_md_content : TemplateContents, append_to : PriorMemories,
   file : FileStates]

NoMemoryIn ==
  [memory_type |-> "text", memory_file |-> CustomMemory, text_memory |-> <<>>,
   file_path |-> <<>>, claude_md_content |-> <<>>, append_to |-> <<>>, file |-> MissingFile]

\* ------------------------------------------------------------------------
\* Reader (claude_code_reader.py)
\* ------------------------------------------------------------------------

\* The characters of a file name and os.path.splitext(name)[1].
FileNameText(name) ==
  CASE name = MetadataFile -> <<"_","c","l","a","u","d","e","_","c","o","d","e","_","m","e","t","a","d","a","t","a",".","j","s","o","n">>
    [] name = RawOutputFile -> <<"_","c","l","a","u","d","e","_","r","a","w","_","o","u","t","p","u","t",".","t","x","t">>
    [] name = RawErrorFile -> <<"_","c","l","a","u","d","e","_","r","a","w","_","e","r","r","o","r",".","t","x","t">>
    [] name = ErrorLogFile -> <<"e","r","r","o","r","_","l","o","g",".","t","x","t">>
    [] name = RedditDataFile -> <<"r","e","d","d","i","t","_","d","a","t","a",".","j","s","o","n">>
    [] name = "scraping_summary.txt" -> <<"s","c","r","a","p","i","n","g","_","s","u","m","m","a","r","y",".","t","x","t">>

splitext(name) ==
  IF name \in {MetadataFile, RedditDataFile} THEN ".json" ELSE ".txt"

\* The file patterns of the model: every file, every file of one extension,
\* one file by its name.
fnmatch(name, pattern) ==
  \/ pattern = "*"
  \/ pattern = name
  \/ pattern = "*.json" /\ splitext(name) = ".json"
  \/ pattern = "*.txt" /\ splitext(name) = ".txt"

\* A file below folder_path: dir is the session folder between folder_path
\* and the file (empty when folder_path is the session folder itself).
Entry(dir, folder, name) == [dir |-> dir, folder |-> folder, name |-> name]

\* os.path.join(self.output_base_dir, output_folder): the empty name gives the
\* base output root itself.
folder_exists(disk_now, output_folder) ==
  output_folder = <<>> \/ output_folder \in DOMAIN disk_now

\* glob.glob(os.path.join(folder_path, "**", file_pattern), recursive=True), as
\* a set; the order of the result is the directory order.
glob(disk_now, output_folder, file_pattern) ==
  IF output_folder = <<>>
  THEN UNION {{Entry(folder, folder, name) :
                 name \in {n \in DOMAIN disk_now[folder] : fnmatch(n, file_pattern)}} :
              folder \in DOMAIN disk_now}
  ELSE IF output_folder \in DOMAIN disk_now
  THEN {Entry(<<>>, output_folder, name) :
          name \in {n \in DOMAIN disk_now[output_folder] : fnmatch(n, file_pattern)}}
  ELSE {}

\* The orders in which a directory scan may give a set of files.
Orders(S) ==
  {order \in [1..Cardinality(S) -> S] :
     \A i, j \in 1..Cardinality(S) : i # j => order[i] # order[j]}

\* os.path.relpath(file_path, folder_path)
rel_path(entry) ==
  (IF entry.dir # <<>> THEN entry.dir \o <<"/">> ELSE <<>>) \o FileNameText(entry.name)

first_files_uncapped(files, max_files) == files

\* files[:max_files]
first_files(files, max_files) ==
  SubSeq(files, 1, IF max_files < Len(files) THEN max_files ELSE Len(files))

\* Lines 87-94.
file_info(disk_now, entry) ==
  [path |-> rel_path(entry), size |-> Len(disk_now[entry.folder][entry.name].text),
   type |-> splitext(entry.name)]

\* Lines 99-102.
list_files_text(output_folder, file_list) ==
  <<"F","i","l","e","s"," ","i","n"," ">> \o output_folder \o <<":","\n">>
    \o join([i \in DOMAIN file_list |->
               <<"-"," ">> \o file_list[i].path \o <<" ","(">> \o str_int(file_list[i].size)
                 \o <<" ","b","y","t","e","s",")","\n">>], <<>>)

\* Lines 104-114.
read_all_text(disk_now, shown, unreadable) ==
  join([i \in DOMAIN shown |->
          <<"=","=","="," ">> \o rel_path(shown[i]) \o <<" ","=","=","=","\n">>
            \o (IF shown[i] \in unreadable THEN <<"E","r","r","o","r"," ","r","e","a","d","i","n","g"," ","f","i","l","e",":"," ">> \o ReadErrorText
                ELSE disk_now[shown[i].folder][shown[i].name].text)
            \o NewLine],
       NewLine)

ReaderRaised ==
  [raised |-> TRUE, file_contents |-> TextContent(<<>>), file_list |-> <<>>,
   metadata |-> TextContent(<<>>)]
ReaderResult(file_contents, file_list, metadata) ==
  [raised |-> FALSE, file_contents |-> file_contents, file_list |-> file_list,
   metadata |-> metadata]

missing_folder_result_without_text(output_folder) ==
  ReaderResult(TextContent(<<>>), <<>>, TextContent(<<>>))

\* Line 68: the result for a folder that does not exist.
missing_folder_result(output_folder) ==
  ReaderResult(TextContent(<<"E","r","r","o","r",":"," ","O","u","t","p","u","t"," ","f","o","l","d","e","r"," ","'">> \o output_folder \o <<"'"," ","n","o","t"," ","f","o","u","n","d">>),
               <<>>, TextContent(<<>>))

\* ClaudeCodeReader.read_output. order is the order glob gives the matching
\* files in; unreadable holds the files whose open or read raises. The
\* outputs file_contents and metadata are file contents: the text built, or
\* what the file read holds.
read_output(disk_now, output_folder, file_pattern, read_mode, specific_file, max_files, order, unreadable) ==
  IF ~folder_exists(disk_now, output_folder)
  THEN missing_folder_result(output_folder)
  ELSE LET in_folder == IF output_folder = <<>> THEN {} ELSE DOMAIN disk_now[output_folder]
           meta_entry == Entry(<<>>, output_folder, MetadataFile)
           metadata  == IF MetadataFile \in in_folder THEN disk_now[output_folder][MetadataFile]
                        ELSE TextContent(<<>>)
           files     == SelectSeq(order, LAMBDA e : e.name # MetadataFile)
           shown     == first_files(files, max_files)
           file_list == [i \in DOMAIN shown |-> file_info(disk_now, shown[i])]
           spec_entry == Entry(<<>>, output_folder, specific_file)
           contents  == IF read_mode = "list_files"
                        THEN TextContent(list_files_text(output_folder, file_list))
                        ELSE IF read_mode = "read_all"
                        THEN TextContent(read_all_text(disk_now, shown, unreadable))
                        ELSE IF read_mode = "read_specific" /\ specific_file # ""
                        THEN IF specific_file \in in_folder
                             THEN IF spec_entry \in unreadable
                                  THEN TextContent(<<"E","r","r","o","r"," ","r","e","a","d","i","n","g"," ","f","i","l","e",":"," ">> \o ReadErrorText)
                                  ELSE disk_now[output_folder][specific_file]
                             ELSE TextContent(<<"F","i","l","e"," ","'">> \o FileNameText(specific_file)
                                                \o <<"'"," ","n","o","t"," ","f","o","u","n","d"," ","i","n"," ","o","u","t","p","u","t"," ","f","o","l","d","e","r">>)
                        ELSE TextContent(<<>>)
       IN IF MetadataFile \in in_folder /\ meta_entry \in unreadable THEN ReaderRaised
          ELSE ReaderResult(contents, file_list, metadata)

\* ------------------------------------------------------------------------
\* Inputs of the Reader and the folders it finds
\* ------------------------------------------------------------------------

\* The session folder an execute run of second 0 has left, and the name of a
\* session that does not exist.
ExistingFolder == folder_name(ExecutePrefix, 0, <<"0","a","1","b","2","c","3","d">>)
AbsentFolder == folder_name(ExecutePrefix, 0, <<"f","f","f","f","f","f","f","f">>)

RunOutputText == <<"o","u","t">>
RunErrorText == <<"e","r","r">>

\* The base output root: empty; one session with its metadata and raw files;
\* one session whose run left raw output only.
ReaderDisks ==
  LET made == makedirs(<<>>, ExistingFolder)
      meta == run_metadata(ExistingFolder, ModelDefault, DefaultMaxTurns, DefaultTools, 1,
                           EmptyObjectText, <<>>, <<>>)
  IN {<<>>,
      persist(made, ExistingFolder, meta, RunOutputText, RunErrorText, "none"),
      write_file(made, ExistingFolder, RawOutputFile, TextContent(RunOutputText))}

FilePatterns == {"*", "*.json", "*.txt"}
ReadModes == {"list_files", "read_all", "read_specific"}
SpecificFiles == {"", MetadataFile, RawOutputFile}
MaxFilesChoices == {1, 10}

ReaderInputs ==
  [output_folder : {ExistingFolder, AbsentFolder, <<>>}, file_pattern : FilePatterns,
   read_mode : ReadModes, specific_file : SpecificFiles, max_files : MaxFilesChoices]

NoReaderIn ==
  [output_folder |-> <<>>, file_pattern |-> "*", read_mode |-> "list_files",
   specific_file |-> "", max_files |-> 10]
NoReaderOut == ReaderResult(TextContent(<<>>), <<>>, TextContent(<<>>))

\* ------------------------------------------------------------------------
\* Context node (claude_code_context.py)
\* ------------------------------------------------------------------------

\* One lexeme as json.dumps writes it.
DoubleQuote == "\""
lexeme_text(t) ==
  IF t.kind = "string" THEN <<DoubleQuote>> \o t.text \o <<DoubleQuote>> ELSE t.text

RECURSIVE indent(_)
indent(depth) == IF depth <= 0 THEN <<>> ELSE <<" "," ">> \o indent(depth - 1)

\* The characters json.dumps(value, indent=2) writes for the lexemes of a
\* value: a container opens a line per item, two more spaces per level; an
\* empty container stays closed on its line.
RECURSIVE dumps_text(_, _, _)
dumps_text(toks, i, depth) ==
  IF i > Len(toks) THEN <<>>
  ELSE IF toks[i] \in {LBrace, LBracket}
  THEN IF i < Len(toks) /\ toks[i + 1] \in {RBrace, RBracket}
       THEN toks[i].text \o toks[i + 1].text \o dumps_text(toks, i + 2, depth)
       ELSE toks[i].text \o NewLine \o indent(depth + 1) \o dumps_text(toks, i + 1, depth + 1)
  ELSE IF toks[i] \in {RBrace, RBracket}
  THEN NewLine \o indent(depth - 1) \o toks[i].text \o dumps_text(toks, i + 1, depth - 1)
  ELSE IF toks[i] = CommaTok
  THEN <<",">> \o NewLine \o indent(depth) \o dumps_text(toks, i + 1, depth)
  ELSE IF toks[i] = Colon
  THEN <<":"," ">> \o dumps_text(toks, i + 1, depth)
  ELSE lexeme_text(toks[i]) \o dumps_text(toks, i + 1, depth)

BoolTok(b) == [kind |-> "literal", text |-> IF b THEN TrueLower ELSE FalseLower]

\* The lexemes json.dump has written for a metadata object of the scraper
\* (scalar keys of claude_reddit_scraper.py, lines 487-506) and of execute
\* (scalar keys of lines 287-301).
scrape_metadata_lexemes(meta) ==
  <<LBrace, StrTok(<<"m","o","d","e","l">>), Colon, StrTok(meta.model), CommaTok,
    StrTok(<<"o","u","t","p","u","t","_","f","o","l","d","e","r">>), Colon, StrTok(meta.folder), CommaTok,
    StrTok(<<"i","t","e","m","s","_","s","c","r","a","p","e","d">>), Colon, NumTok(str_int(meta.items_scraped)), RBrace>>

metadata_lexemes(meta) ==
  IF meta.kind = "scrape" THEN scrape_metadata_lexemes(meta)
  ELSE
  <<LBrace, StrTok(<<"m","o","d","e","l">>), Colon, StrTok(meta.model), CommaTok,
    StrTok(<<"m","a","x","_","t","u","r","n","s">>), Colon, NumTok(str_int(meta.max_turns)), CommaTok,
    StrTok(<<"o","u","t","p","u","t","_","f","o","l","d","e","r">>), Colon, StrTok(meta.output_folder), CommaTok,
    StrTok(<<"e","x","i","t","_","c","o","d","e">>), Colon, NumTok(str_int(meta.exit_code)), CommaTok,
    StrTok(<<"h","a","s","_","a","r","g","u","m","e","n","t","s">>), Colon, BoolTok(meta.has_arguments), CommaTok,
    StrTok(<<"m","c","p","_","c","o","n","f","i","g","_","r","e","c","e","i","v","e","d">>), Colon, BoolTok(meta.mcp_config_received), RBrace>>

\* The JSON text a file holds: what json.dump wrote, or the text left there.
file_lexemes(content) ==
  IF content.meta.kind = "none" THEN content.text ELSE metadata_lexemes(content.meta)

\* Line 90: the glob pattern of one extension of file_filter, and the names
\* it matches.
glob_pattern(ext) == IF startswith(ext, <<"*">>) THEN ext ELSE <<"*",".">> \o ext
path_match(name, pattern) ==
  IF startswith(pattern, <<"*">>) THEN endswith(FileNameText(name), Tail(pattern))
  ELSE FileNameText(name) = pattern

\* Lines 85-92: the files of the folder some extension of file_filter matches.
filter_matches(names, file_filter) ==
  LET extensions == split(file_filter, Comma)
  IN {n \in names : \E i \in DOMAIN extensions :
                      path_match(n, glob_pattern(strip(extensions[i])))}

\* The file names of the model in the order sorted() gives their paths.
NameOrder ==
  <<MetadataFile, RawErrorFile, RawOutputFile, ErrorLogFile, RedditDataFile, "scraping_summary.txt">>

\* Line 95: sorted(set(all_files)).
sorted_files(names) == SelectSeq(NameOrder, LAMBDA n : n \in names)

ContextRaised == [raised |-> TRUE, memory |-> <<>>]
ContextResult(memory) == [raised |-> FALSE, memory |-> memory]

\* Lines 98-103: the metadata file read with json.load and written again with
\* json.dumps(indent=2). No handler encloses the read: an open or read that
\* raises, or text that is not JSON, ends build_context with the exception.
metadata_dumped(loaded) ==
  IF ~loaded.ok THEN ContextRaised ELSE ContextResult(dumps_text(json_dumps(loaded.value), 1, 0))

read_metadata(files, unreadable) ==
  IF MetadataFile \notin DOMAIN files THEN ContextResult(<<>>)
  ELSE IF MetadataFile \in unreadable THEN ContextRaised
  ELSE metadata_dumped(json_loads(file_lexemes(files[MetadataFile])))

\* Lines 113-116: one line of file_list_str.
file_line(files, name) ==
  <<"-"," ">> \o FileNameText(name) \o <<" ","(">> \o str_int(Len(files[name].text))
    \o <<" ","b","y","t","e","s",")","\n">>

\* Lines 118-126: what file_contents keeps for one file.
file_content(files, name, max_file_size_kb, unreadable) ==
  IF Len(files[name].text) <= max_file_size_kb * 1024
  THEN IF name \in unreadable THEN <<"[","E","r","r","o","r"," ","r","e","a","d","i","n","g"," ","f","i","l","e",":"," ">> \o ReadErrorText \o <<"]">>
       ELSE files[name].text
  ELSE <<"[","F","i","l","e"," ","t","o","o"," ","l","a","r","g","e",":"," ">> \o str_int(Len(files[name].text)) \o <<" ","b","y","t","e","s","]">>

\* text[:n]
first_chars(text, n) == SubSeq(text, 1, IF n < Len(text) THEN n ELSE Len(text))

\* Lines 161-162.
truncated(content) ==
  IF Len(content) > 1000 THEN first_chars(content, 1000) \o <<"\n",".",".","."," ","[","t","r","u","n","c","a","t","e","d","]">> ELSE content

\* The fence of a code block, and the section of one file:
\* heading, path, blank line, fence, content, fence, blank line.
GraveAccent == "grave"   \* the grave accent, one character, written by its name
Fence == <<GraveAccent, GraveAccent, GraveAccent>>
file_section(heading, name, content) ==
  heading \o <<" ">> \o FileNameText(name) \o BlankLine \o Fence \o NewLine \o content \o NewLine \o Fence \o BlankLine

\* s.find(old) + 1 for a text that holds old.
find_first(s, old) ==
  CHOOSE i \in 1..(Len(s) - Len(old) + 1) :
    /\ SubSeq(s, i, i + Len(old) - 1) = old
    /\ \A j \in 1..(i - 1) : s[j] # old[1] \/ SubSeq(s, j, j + Len(old) - 1) # old

\* str.replace on the long texts of the Context node: the occurrences of old
\* are taken left to right, each scan starting behind the last replacement.
RECURSIVE template_replace(_, _, _)
template_replace(s, old, new) ==
  IF \A i \in 1..(Len(s) - Len(old) + 1) : SubSeq(s, i, i + Len(old) - 1) # old THEN s
  ELSE SubSeq(s, 1, find_first(s, old) - 1) \o new
         \o template_replace(SubSeq(s, find_first(s, old) + Len(old), Len(s)), old, new)

\* Lines 135-177: the text the context mode adds behind base_memory. listed
\* holds the files kept in the order of file_contents, lines their lines of
\* file_list_str, contents what file_contents keeps for them.
mode_text(context_mode, output_folder, custom_template, listed, lines, contents, metadata_content) ==
  IF context_mode = "full_content"
  THEN <<"#"," ","F","i","l","e","s"," ","f","r","o","m"," ">> \o output_folder \o BlankLine
         \o join([i \in DOMAIN listed |-> file_section(<<"#","#">>, listed[i], contents[i])], <<>>)
  ELSE IF context_mode = "file_list"
  THEN <<"#"," ","F","i","l","e","s"," ","c","r","e","a","t","e","d"," ","i","n"," ">> \o output_folder \o BlankLine \o join(lines, <<>>) \o NewLine
         \o (IF metadata_content # <<>>
             THEN <<"#","#"," ","E","x","e","c","u","t","i","o","n"," ","M","e","t","a","d","a","t","a","\n","\n">> \o Fence \o <<"j","s","o","n","\n">> \o metadata_content \o NewLine \o Fence \o NewLine
             ELSE <<>>)
  ELSE IF context_mode = "summary"
  THEN <<"#"," ","P","r","e","v","i","o","u","s"," ","e","x","e","c","u","t","i","o","n",":"," ">> \o output_folder \o BlankLine \o <<"#","#"," ","F","i","l","e","s"," ","c","r","e","a","t","e","d",":","\n">>
         \o join(lines, <<>>) \o NewLine
         \o (IF listed # <<>>
             THEN <<"#","#"," ","K","e","y"," ","f","i","l","e"," ","c","o","n","t","e","n","t","s",":","\n","\n">>
                    \o join([i \in DOMAIN first_files(listed, 5) |->
                               file_section(<<"#","#","#">>, listed[i], truncated(contents[i]))], <<>>)
             ELSE <<>>)
  ELSE IF context_mode = "custom" /\ custom_template # <<>>
  THEN template_replace(template_replace(template_replace(template_replace(custom_template, <<"{","f","i","l","e","_","l","i","s","t","}">>, join(lines, <<>>)),
                               <<"{","f","i","l","e","_","c","o","n","t","e","n","t","s","}">>,
                               join([i \in DOMAIN first_files(listed, 5) |->
                                       file_section(<<"#","#","#">>, listed[i], contents[i])], <<>>)),
                       <<"{","m","e","t","a","d","a","t","a","}">>, metadata_content),
               <<"{","o","u","t","p","u","t","_","f","o","l","d","e","r","}">>, output_folder)
  ELSE <<>>

\* Lines 131-133 and 179.
with_base_memory(base_memory, text) ==
  (IF base_memory # <<>> THEN base_memory \o BlankLine ELSE <<>>) \o text

\* Lines 105-180 once the metadata file has been read.
context_of(context_mode, output_folder, base_memory, custom_template, max_file_size_kb, files, listed, unreadable, metadata) ==
  IF metadata.raised THEN ContextRaised
  ELSE ContextResult(with_base_memory(base_memory,
         mode_text(context_mode, output_folder, custom_template, listed,
                   [i \in DOMAIN listed |-> file_line(files, listed[i])],
                   [i \in DOMAIN listed |-> file_content(files, listed[i], max_file_size_kb, unreadable)],
                   metadata.memory)))

\* Lines 81-82: the result for a folder that does not exist.
context_missing_folder(output_folder, base_memory) ==
  ContextResult(<<"E","r","r","o","r",":"," ","O","u","t","p","u","t"," ","f","o","l","d","e","r"," ","'">> \o output_folder \o <<"'"," ","n","o","t"," ","f","o","u","n","d">>)

\* ClaudeCodeContext.build_context. unreadable holds the files of the folder
\* whose open or read raises.
build_context(disk_now, output_folder, context_mode, base_memory, file_filter, custom_template, max_file_size_kb, unreadable) ==
  IF output_folder = <<>> \/ strip(output_folder) = <<>> THEN ContextResult(base_memory)
  ELSE IF output_folder \notin DOMAIN disk_now
  THEN context_missing_folder(output_folder, base_memory)
  ELSE context_of(context_mode, output_folder, base_memory, custom_template, max_file_size_kb,
                  disk_now[output_folder],
                  SelectSeq(sorted_files(filter_matches(DOMAIN disk_now[output_folder], file_filter)),
                            LAMBDA n : n # MetadataFile),
                  unreadable,
                  read_metadata(disk_now[output_folder], unreadable))

\* ------------------------------------------------------------------------
\* Inputs of the Context node and the folders it finds
\* ------------------------------------------------------------------------

\* The size at which the smallest max_file_size_kb excludes a file.
BigFileSize == 1025
BigText == [i \in 1..BigFileSize |-> "x"]

\* ReaderDisks, and a session whose run was killed while it wrote its metadata
\* file, and a session whose captured output is larger than 1 KB.
ContextDisks ==
  ReaderDisks \cup
    {write_file(write_file(makedirs(<<>>, ExistingFolder), ExistingFolder, MetadataFile,
                           TextContent(<<LBrace>>)),
                ExistingFolder, RawOutputFile, TextContent(RunOutputText)),
     write_file(makedirs(<<>>, ExistingFolder), ExistingFolder, RawOutputFile,
                TextContent(BigText))}

ContextModes == {"full_content", "file_list", "summary", "custom"}
BaseMemories == {<<>>, <<"m","e","m">>}
DefaultFileFilter == <<"*",".","p","y",",","*",".","j","s",",","*",".","t","s",",","*",".","m","d",",","*",".","t","x","t",",","*",".","j","s","o","n">>
FileFilters == {DefaultFileFilter, <<"t","x","t">>}
CustomTemplates == {<<>>, <<"{","f","i","l","e","_","l","i","s","t","}","|","{","m","e","t","a","d","a","t","a","}","|","{","f","i","l","e","_","c","o","n","t","e","n","t","s","}","|","{","o","u","t","p","u","t","_","f","o","l","d","e","r","}">>}
MaxFileSizeChoices == {1, 100}

ContextInputs ==
  [output_folder : {ExistingFolder, AbsentFolder, <<>>, <<" ">>}, context_mode : ContextModes,
   base_memory : BaseMemories, file_filter : FileFilters, custom_template : CustomTemplates,
   max_file_size_kb : MaxFileSizeChoices]

NoContextIn ==
  [output_folder |-> <<>>, context_mode |-> "summary", base_memory |-> <<>>,
   file_filter |-> DefaultFileFilter, custom_template |-> <<>>, max_file_size_kb |-> 100]
NoContextOut == ContextResult(<<>>)

\* ------------------------------------------------------------------------
\* Scraper: MCP registration and the data read back (claude_reddit_scraper.py)
\* ------------------------------------------------------------------------

PlaywrightName == <<"p","l","a","y","w","r","i","g","h","t">>
PlaywrightConfig ==
  <<LBrace, StrTok(CommandKey), Colon, StrTok(<<"p","l","a","y","w","r","i","g","h","t","-","m","c","p","-","s","e","r","v","e","r">>), RBrace>>

\* any(mcp.get("name") == "playwright" for mcp in mcps): the elements are
\* tried in order and the first match ends the scan; an element without get
\* raises AttributeError.
RECURSIVE any_playwright(_)
any_playwright(elems) ==
  IF elems = <<>> THEN [raised |-> FALSE, found |-> FALSE]
  ELSE IF ~has_get(Head(elems)) THEN [raised |-> TRUE, found |-> FALSE]
  ELSE LET name == get_or(Head(elems), NameKey, NullTok)
       IN IF ~IsContainer(name) /\ name = StrTok(PlaywrightName)
          THEN [raised |-> FALSE, found |-> TRUE]
          ELSE any_playwright(Tail(elems))

ensure_playwright_mcp_add_always(list_run, add_run) ==
  LET log == <<Invoked("list", <<>>, list_run), Invoked("add-json", PlaywrightConfig, add_run)>>
  IN [ok |-> ~list_run.raised /\ ~add_run.raised /\ add_run.returncode = 0, log |-> log]

\* ClaudeRedditScraper.ensure_playwright_mcp: what it returns and the
\* sub-commands it invoked. Every exception (a failure to spawn, list output
\* that is not JSON or not a list of objects) ends in the handler of lines
\* 167-169, which returns False.
ensure_playwright_mcp(list_run, add_run) ==
  LET listed == <<Invoked("list", <<>>, list_run)>>
      added  == Append(listed, Invoked("add-json", PlaywrightConfig, add_run))
      parsed == json_loads(list_run.stdout)
      it     == iter_items(parsed.value)
      found  == any_playwright(it.elems)
  IN IF list_run.raised THEN [ok |-> FALSE, log |-> listed]
     ELSE IF list_run.returncode = 0 /\ (~parsed.ok \/ ~it.ok \/ found.raised)
     THEN [ok |-> FALSE, log |-> listed]
     ELSE IF list_run.returncode = 0 /\ found.found THEN [ok |-> TRUE, log |-> listed]
     ELSE IF add_run.raised THEN [ok |-> FALSE, log |-> added]
     ELSE [ok |-> add_run.returncode = 0, log |-> added]

SummaryFile == "scraping_summary.txt"

\* What the external process has left in its working directory: the data
\* file and the summary file, each written or not.
Left(data_written, data, summary_written, summary) ==
  [data_written |-> data_written, data |-> data, summary_written |-> summary_written,
   summary |-> summary]

process_files(disk_now, folder, left) ==
  LET d1 == IF left.data_written
            THEN write_file(disk_now, folder, RedditDataFile, TextContent(left.data))
            ELSE disk_now
  IN IF left.summary_written
     THEN write_file(d1, folder, SummaryFile, TextContent(left.summary))
     ELSE d1

\* len(value) is defined for a list, a dict and a string (TypeError otherwise).
sized(v) == IsContainer(v) \/ v.kind = "string"
py_len(v) == IF IsContainer(v) THEN Len(v.items) ELSE Len(v.text)

NoDataText == <<"N","o"," ","d","a","t","a">>
NoDataFoundText == <<"N","o"," ","d","a","t","a"," ","f","o","u","n","d">>
DataErrorKey == <<"e","r","r","o","r">>
FailedToReadText == <<"F","a","i","l","e","d"," ","t","o"," ","r","e","a","d"," ","d","a","t","a"," ","f","i","l","e",":"," ">>
DecodeMessage == <<"E","x","p","e","c","t","i","n","g"," ","v","a","l","u","e">>
NoLenMessage == <<"o","b","j","e","c","t"," ","h","a","s"," ","n","o"," ","l","e","n","(",")">>

data_error(message) == PyDict(<<Item(DataErrorKey, StrTok(FailedToReadText \o message))>>)

count_items_data_first(value) ==
  IF value.type = "list" THEN [ok |-> TRUE, n |-> Len(value.items)]
  ELSE IF value.type = "dict"
       THEN IF dict_has(value, <<"d","a","t","a">>)
            THEN IF sized(dict_get(value, <<"d","a","t","a">>))
                 THEN [ok |-> TRUE, n |-> py_len(dict_get(value, <<"d","a","t","a">>))]
                 ELSE [ok |-> FALSE, n |-> 0]
            ELSE IF dict_has(value, <<"p","o","s","t","s">>)
            THEN IF sized(dict_get(value, <<"p","o","s","t","s">>))
                 THEN [ok |-> TRUE, n |-> py_len(dict_get(value, <<"p","o","s","t","s">>))]
                 ELSE [ok |-> FALSE, n |-> 0]
            ELSE [ok |-> TRUE, n |-> 1]
  ELSE [ok |-> TRUE, n |-> 0]

\* Lines 359-367: the item count of the value read, ok = FALSE when len raises.
count_items(value) ==
  IF value.type = "list" THEN [ok |-> TRUE, n |-> Len(value.items)]
  ELSE IF value.type = "dict"
       THEN IF dict_has(value, <<"p","o","s","t","s">>)
            THEN IF sized(dict_get(value, <<"p","o","s","t","s">>))
                 THEN [ok |-> TRUE, n |-> py_len(dict_get(value, <<"p","o","s","t","s">>))]
                 ELSE [ok |-> FALSE, n |-> 0]
            ELSE IF dict_has(value, <<"d","a","t","a">>)
            THEN IF sized(dict_get(value, <<"d","a","t","a">>))
                 THEN [ok |-> TRUE, n |-> py_len(dict_get(value, <<"d","a","t","a">>))]
                 ELSE [ok |-> FALSE, n |-> 0]
            ELSE [ok |-> TRUE, n |-> 1]
  ELSE [ok |-> TRUE, n |-> 0]

\* Lines 354-370 once json.load has run: the data and the count kept. A
\* value that is not JSON, or a len that raises, leaves the count at 0 and
\* puts an error object in place of the data.
data_counted(value, counted) ==
  IF ~counted.ok THEN [data |-> data_error(NoLenMessage), n |-> 0]
  ELSE [data |-> value, n |-> counted.n]

data_loaded(loaded) ==
  IF ~loaded.ok THEN [data |-> data_error(DecodeMessage), n |-> 0]
  ELSE data_counted(loaded.value, count_items(loaded.value))

\* Lines 351-370: reddit_data.json read and counted.
read_data_file(files) ==
  IF RedditDataFile \notin DOMAIN files THEN [data |-> EmptyDict, n |-> 0]
  ELSE data_loaded(json_loads(files[RedditDataFile].text))

\* Lines 372-379: scraping_summary.txt read and stripped.
read_summary_file(files) ==
  IF SummaryFile \in DOMAIN files THEN strip(files[SummaryFile].text) ELSE NoDataFoundText

\* Lines 381-387: the summary returned.
summary_of(n, read) ==
  IF n > 0 /\ ~startswith(read, NoDataText) THEN read
  ELSE IF n > 0
  THEN <<"S","u","c","c","e","s","s","f","u","l","l","y"," ","s","c","r","a","p","e","d"," ">> \o str_int(n) \o <<" ","i","t","e","m","s">>
  ELSE read

scraped(counted, read) ==
  [scraped_data |-> counted.data, summary |-> summary_of(counted.n, read),
   item_count |-> counted.n]

\* ClaudeRedditScraper.read_scraped_data: the data, the summary and the item
\* count.
read_scraped_data(disk_now, folder) ==
  scraped(read_data_file(disk_now[folder]), read_summary_file(disk_now[folder]))

item_count_of(disk_now, folder) == read_scraped_data(disk_now, folder).item_count

\* The four outputs of scrape_reddit: the output object (with folder,
\* response and metadata, or with error only), the data, the summary, the
\* item count.
ScrapeResult(output_folder, output_response, output_error, metadata, scraped_data, summary, item_count) ==
  [output_folder |-> output_folder, output_response |-> output_response,
   output_error |-> output_error, metadata |-> metadata, scraped_data |-> scraped_data,
   summary |-> summary, item_count |-> item_count]

\* ({"error": message}, {}, message, 0)
error_result(message) == ScrapeResult(<<>>, <<>>, message, NoMeta, EmptyDict, message, 0)

NoResult == ScrapeResult(<<>>, <<>>, <<>>, NoMeta, EmptyDict, <<>>, 0)

timeout_result_discarding(disk_now, folder) == error_result(TimeoutText)

\* Lines 523-537: the partial result when items were counted, the failure
\* otherwise.
timeout_with(folder, read) ==
  IF read.item_count > 0
  THEN ScrapeResult(folder,
                    <<"P","a","r","t","i","a","l"," ","d","a","t","a"," ","s","c","r","a","p","e","d"," ","b","e","f","o","r","e"," ","t","i","m","e","o","u","t",":"," ">> \o str_int(read.item_count)
                      \o <<" ","i","t","e","m","s">>,
                    <<>>,
                    [kind |-> "partial", error |-> TimeoutText, partial_data |-> TRUE],
                    read.scraped_data,
                    <<"T","i","m","e","o","u","t"," ","-"," ","p","a","r","t","i","a","l"," ","d","a","t","a",":"," ">> \o str_int(read.item_count) \o <<" ","i","t","e","m","s">>,
                    read.item_count)
  ELSE error_result(TimeoutText)

\* Lines 518-537: the handler of subprocess.TimeoutExpired.
timeout_result(disk_now, folder) == timeout_with(folder, read_scraped_data(disk_now, folder))

finish_with(folder, metadata, read) ==
  ScrapeResult(folder, read.summary, <<>>, metadata, read.scraped_data, read.summary,
               read.item_count)

\* Lines 476-516: the result after the process has exited and the metadata
\* file is written.
finish_result(disk_now, folder, metadata) ==
  finish_with(folder, metadata, read_scraped_data(disk_now, folder))

\* str.lstrip(chars): the leading characters that are in chars are removed.
RECURSIVE lstrip_chars(_, _)
lstrip_chars(s, chars) ==
  IF s # <<>> /\ Head(s) \in chars THEN lstrip_chars(Tail(s), chars) ELSE s

RedditHost == <<"h","t","t","p","s",":","/","/","r","e","d","d","i","t",".","c","o","m","/">>

\* ClaudeRedditScraper.build_reddit_url.
build_reddit_url(source_type, source, sort_by, time_filter) ==
  IF source_type = "url" THEN source
  ELSE IF source_type = "subreddit"
  THEN RedditHost \o <<"r","/">> \o lstrip_chars(strip(source), {"/", "r"}) \o <<"/">> \o sort_by
         \o (IF sort_by \in {<<"t","o","p">>, <<"c","o","n","t","r","o","v","e","r","s","i","a","l">>} THEN <<"/","?","t","=">> \o time_filter
             ELSE <<"/">>)
  ELSE IF source_type = "search" THEN RedditHost \o <<"s","e","a","r","c","h","/","?","q","=">> \o source
  ELSE IF source_type = "user"
  THEN RedditHost \o <<"u","s","e","r","/">>
         \o lstrip_chars(lstrip_chars(strip(source), {"/", "u"}), {"u", "/"})
  ELSE source

\* What the scraper is asked for: source type, source, sort order and time
\* filter.
Source(source_type, source, sort_by, time_filter) ==
  [source_type |-> source_type, source |-> source, sort_by |-> sort_by,
   time_filter |-> time_filter]

CoarseSources == {Source("subreddit", <<"p","y","t","h","o","n">>, <<"h","o","t">>, <<"d","a","y">>)}

ScrapeSources ==
  {Source("subreddit", source, sort_by, <<"d","a","y">>) :
     source \in {<<"p","y","t","h","o","n">>, <<"/","r","/","p","y","t","h","o","n">>, <<" ","p","y","t","h","o","n","\n">>, <<"r","u","s","t">>},
     sort_by \in {<<"h","o","t">>, <<"t","o","p">>}}
    \cup {Source("user", source, <<"h","o","t">>, <<"d","a","y">>) :
            source \in {<<"b","o","b">>, <<"/","u","/","b","o","b">>, <<"u","/","b","o","b">>, <<"u","m","a">>}}
    \cup {Source("url", <<"h","t","t","p","s",":","/","/","x",".","t","e","s","t","/">>, <<"h","o","t">>, <<"d","a","y">>),
          Source("search", <<"c","a","t","s">>, <<"h","o","t">>, <<"d","a","y">>)}

\* ------------------------------------------------------------------------
\* Outcomes of the scraper's external calls
\* ------------------------------------------------------------------------

NothingLeft == Left(FALSE, <<>>, FALSE, <<>>)

\* The coarse choices of Spec: the server is listed, or it is not and cannot
\* be added; the process leaves nothing or a list of two posts.
ListedRuns ==
  {RunExited(0, <<LBracket, LBrace, StrTok(NameKey), Colon, StrTok(PlaywrightName), RBrace,
                  RBracket>>, <<>>)}
CoarseListRuns == ListedRuns \cup {RunExited(0, <<LBracket, RBracket>>, <<>>)}
CoarseAddRuns == {RunExited(1, <<>>, FailedText)}
CoarseLefts == {NothingLeft, Left(TRUE, ScrapedListText, FALSE, <<>>)}

\* Every outcome of the list sub-command the model holds: not spawned, a
\* non-zero exit, the server listed, another server listed, no server, output
\* that is not JSON, a list of numbers.
ScrapeListRuns ==
  {RunRaised, RunExited(1, <<>>, FailedText)} \cup CoarseListRuns
    \cup {RunExited(0, <<LBracket, LBrace, StrTok(NameKey), Colon, StrTok(McpName), RBrace,
                         RBracket>>, <<>>),
          RunExited(0, <<LBracket>>, <<>>),
          RunExited(0, <<LBracket, NumTok(<<"1">>), RBracket>>, <<>>)}

\* reddit_data.json as the process may leave it: lists, objects with a posts
\* or a data field (a list, a string, a number or null), other objects, a
\* number, and text cut short by the timeout.
DataTexts ==
  {ScrapedListText,
   <<LBracket, RBracket>>,
   <<LBrace, StrTok(<<"p","o","s","t","s">>), Colon, LBracket, NumTok(<<"1">>), CommaTok, NumTok(<<"2">>),
     CommaTok, NumTok(<<"3">>), RBracket, RBrace>>,
   <<LBrace, StrTok(<<"d","a","t","a">>), Colon, LBracket, NumTok(<<"1">>), RBracket, RBrace>>,
   <<LBrace, StrTok(<<"d","a","t","a">>), Colon, LBracket, NumTok(<<"1">>), CommaTok, NumTok(<<"2">>),
     RBracket, CommaTok, StrTok(<<"p","o","s","t","s">>), Colon, LBracket, NumTok(<<"1">>), RBracket, RBrace>>,
   <<LBrace, StrTok(<<"f","o","o">>), Colon, NumTok(<<"1">>), RBrace>>,
   <<LBrace, RBrace>>,
   <<LBrace, StrTok(<<"p","o","s","t","s">>), Colon, NumTok(<<"5">>), RBrace>>,
   <<LBrace, StrTok(<<"d","a","t","a">>), Colon, NullTok, RBrace>>,
   <<LBrace, StrTok(<<"p","o","s","t","s">>), Colon, StrTok(<<"a","b">>), RBrace>>,
   <<NumTok(<<"5">>)>>,
   <<LBracket, NumTok(<<"1">>), CommaTok>>}

SummaryTexts == {<<"2"," ","p","o","s","t","s"," ","f","o","u","n","d","\n">>, <<"N","o"," ","d","a","t","a"," ","y","e","t">>}

AllLefts ==
  {NothingLeft}
    \cup {Left(TRUE, data, FALSE, <<>>) : data \in DataTexts}
    \cup {Left(FALSE, <<>>, TRUE, summary) : summary \in SummaryTexts}
    \cup {Left(TRUE, data, TRUE, summary) : data \in DataTexts, summary \in SummaryTexts}

\* Inputs of execute that differ in what the prompt and the command line are
\* built from: the memory, the previous session named (none, one that exists,
\* one that does not), the model, the turn count and the tools configuration
\* (none, the default, a builder output with the marker, a list with blanks
\* and an empty piece, the marker with False and with TRUE in capitals).
MemoryTexts == {<<>>, <<"c","t","x"," ","$","{","A","}">>}
PreviousOutputs == {<<>>, ExistingFolder, AbsentFolder}
TurnChoices == {1, 12}
ToolsConfigs ==
  {<<>>, DefaultTools, BuilderTools, <<" ","R","e","a","d",","," ",",","B","a","s","h">> \o SkipMarker \o <<"F","a","l","s","e">>,
   Read \o SkipMarker \o <<"T","R","U","E">>, <<"W","e","b","F","e","t","c","h",",","R","e","a","d">>}

ComposeInputs ==
  {[command |-> CommandText, arguments |-> ObjText(<<Item(KeyA, StrTok(<<"1">>))>>),
    tools |-> tools, model |-> model, max_turns |-> max_turns, mcp_config |-> <<>>,
    memory |-> memory, previous_output |-> previous_output] :
     tools \in ToolsConfigs, model \in {ModelDefault, ModelOpus}, max_turns \in TurnChoices,
     memory \in MemoryTexts, previous_output \in PreviousOutputs}

\* Commands and argument maps for replace_arguments: one and two
\* placeholders, a placeholder inside another; values that hold the
\* placeholder of an earlier key, of a later key, of their own key.
ReplaceCommands == {CommandText, <<"$","{","A","}"," ","$","{","B","}">>, <<"$","{","$","{","B","}","}">>, <<"x"," ","$","{","B","}">>}
ReplaceArguments ==
  {ObjText(<<Item(KeyA, StrTok(<<"1">>))>>),
   ObjText(<<Item(KeyA, StrTok(<<"1">>)), Item(KeyB, StrTok(<<"A">>))>>),
   ObjText(<<Item(KeyB, StrTok(<<"x">>)), Item(KeyA, StrTok(<<"$","{","B","}">>))>>),
   ObjText(<<Item(KeyA, StrTok(<<"$","{","B","}">>)), Item(KeyB, StrTok(<<"x">>))>>),
   ObjText(<<Item(KeyA, StrTok(<<"$","{","A","}">>))>>),
   <<LBrace, StrTok(KeyA), Colon, StrTok(<<"1">>)>>}

ReplaceInputs ==
  {[command |-> command, arguments |-> arguments, tools |-> DefaultTools,
    model |-> ModelDefault, max_turns |-> DefaultMaxTurns, mcp_config |-> <<>>,
    memory |-> memory, previous_output |-> <<>>] :
     command \in ReplaceCommands, arguments \in ReplaceArguments, memory \in MemoryTexts}

\* ------------------------------------------------------------------------
\* State
\* ------------------------------------------------------------------------

VARIABLES
  t_pc, t_in, t_out,   \* Tool Permission Builder: stage, inputs, outputs
  x_cmd,               \* what the execute node assembles from the builder's output
  a_pc, a_in, a_out,   \* Argument Map Builder: stage, inputs, outputs
  clock,               \* wall-clock seconds
  disk,                \* the base output root: folder name -> file name -> content
  calls,               \* the execute and scraper invocations of the host graph
  m_pc, m_in, m_out,   \* MCP Manager: stage, inputs, outputs
  mem_pc, mem_in, mem_out,   \* Memory Builder: stage, inputs, output
  r_pc, r_in, r_out,   \* Reader: stage, inputs, outputs
  ctx_pc, ctx_in, ctx_out   \* Context: stage, inputs, output

toolVars == <<t_pc, t_in, t_out, x_cmd>>
argVars == <<a_pc, a_in, a_out>>
sessionVars == <<clock, disk, calls>>
mcpVars == <<m_pc, m_in, m_out>>
memoryVars == <<mem_pc, mem_in, mem_out>>
readerVars == <<r_pc, r_in, r_out>>
contextVars == <<ctx_pc, ctx_in, ctx_out>>
nodeVars == <<mcpVars, memoryVars, readerVars, contextVars>>
vars == <<t_pc, t_in, t_out, x_cmd, a_pc, a_in, a_out, clock, disk, calls, m_pc, m_in, m_out, mem_pc, mem_in, mem_out, r_pc, r_in, r_out, ctx_pc, ctx_in, ctx_out>>

ToolsIdle ==
  /\ t_pc = "idle"
  /\ t_in = [preset |-> "none", custom |-> <<>>, remove |-> <<>>,
             file_read |-> FALSE, file_write |-> FALSE, file_edit |-> FALSE,
             bash |-> FALSE, search |-> FALSE, web |-> FALSE, skip_permissions |-> FALSE]
  /\ t_out = NoToolsOut
  /\ x_cmd = NoCmd

ArgsIdle ==
  /\ a_pc = "idle"
  /\ a_in = NoArgIn
  /\ a_out = Returned(<<>>)

McpIdle ==
  /\ m_pc = "idle"
  /\ m_in = NoMcpIn
  /\ m_out = NoMcpOut

MemoryIdle ==
  /\ mem_pc = "idle"
  /\ mem_in = NoMemoryIn
  /\ mem_out = <<>>

ReaderIdle ==
  /\ r_pc = "idle"
  /\ r_in = NoReaderIn
  /\ r_out = NoReaderOut

ContextIdle ==
  /\ ctx_pc = "idle"
  /\ ctx_in = NoContextIn
  /\ ctx_out = NoContextOut

NodesIdle == McpIdle /\ MemoryIdle /\ ReaderIdle /\ ContextIdle

\* __init__ has made the base output root; no node has run.
SessionsIdle ==
  /\ clock = 0
  /\ disk = <<>>
  /\ calls = [c \in Calls |-> NoCall]

\* ------------------------------------------------------------------------
\* SpecTools: the Tool Permission Builder feeding the execute node
\* ------------------------------------------------------------------------

InitTools ==
  /\ t_pc = "input"
  /\ t_in \in ToolInputs
  /\ t_out = NoToolsOut
  /\ x_cmd = NoCmd
  /\ ArgsIdle
  /\ SessionsIdle
  /\ NodesIdle

\* The host graph runs the Tool Permission Builder node on its widget values.
ConfigureTools ==
  /\ t_pc = "input"
  /\ t_out' = configure_tools(t_in.preset, join(t_in.custom, Comma), join(t_in.remove, Comma),
                              t_in.file_read, t_in.file_write, t_in.file_edit,
                              t_in.bash, t_in.search, t_in.web, t_in.skip_permissions)
  /\ t_pc' = "configured"
  /\ UNCHANGED <<t_in, x_cmd, argVars, sessionVars, nodeVars>>

\* The execute node consumes the builder's first output as its tools input.
AssembleFromBuilder ==
  /\ t_pc = "configured"
  /\ x_cmd' = cmd_assembly(ModelSonnet, DefaultMaxTurns, t_out.tools_config)
  /\ t_pc' = "assembled"
  /\ UNCHANGED <<t_in, t_out, argVars, sessionVars, nodeVars>>

NextTools == ConfigureTools \/ AssembleFromBuilder

SpecTools == InitTools /\ [][NextTools]_vars

\* ------------------------------------------------------------------------
\* SpecArgs: the Argument Map Builder on enumerated inputs
\* ------------------------------------------------------------------------

InitArgs ==
  /\ a_pc = "input"
  /\ a_in \in ArgInputs
  /\ a_out = Returned(<<>>)
  /\ ToolsIdle
  /\ SessionsIdle
  /\ NodesIdle

\* The host graph runs the Argument Map Builder node.
BuildArguments ==
  /\ a_pc = "input"
  /\ a_out' = build_arguments(a_in.input_mode, a_in.json_arguments, a_in.key, a_in.value,
                              a_in.base_arguments, a_in.merge_arguments)
  /\ a_pc' = "done"
  /\ UNCHANGED <<a_in, toolVars, sessionVars, nodeVars>>

NextArgs == BuildArguments

SpecArgs == InitArgs /\ [][NextArgs]_vars

\* ------------------------------------------------------------------------
\* Spec: execute and scraper invocations sharing the base output root
\* ------------------------------------------------------------------------

Init == ToolsIdle /\ ArgsIdle /\ SessionsIdle /\ NodesIdle

\* A second of wall-clock time passes.
Tick ==
  /\ clock < MaxClock
  /\ clock' = clock + 1
  /\ UNCHANGED <<disk, calls, toolVars, argVars, nodeVars>>

\* execute, lines 207-266: substitute the arguments, allocate the session
\* folder, assemble the command line and start the external process.
ExecuteSpawned(c, placed, made, cmd) ==
  /\ disk' = made
  /\ calls' = [calls EXCEPT ![c] =
                 IF cmd.raised THEN [placed EXCEPT !.pc = "raised"]
                 ELSE [placed EXCEPT !.pc = "running", !.tools = cmd.tools,
                                     !.cmd_parts = cmd.cmd_parts, !.cwd = placed.folder]]

ExecutePlaced(c, inp, call, name, unique_id, made) ==
  ExecuteSpawned(c,
                 [call EXCEPT !.folder = name, !.now = clock, !.unique_id = unique_id,
                              !.mcp_config = inp.mcp_config,
                              !.mcp_setup_errors = mcp_preflight(inp.mcp_config),
                              !.prompt = build_prompt(made, call.command, call.memory,
                                                      folder_path(name), inp.previous_output)],
                 made,
                 cmd_assembly(inp.model, inp.max_turns, inp.tools))

ExecuteReplaced(c, inp, unique_id, command, memory) ==
  IF command.raised \/ memory.raised
  THEN /\ calls' = [calls EXCEPT ![c] =
                      [NoCall EXCEPT !.kind = "execute", !.pc = "raised",
                                     !.command = command.text,
                                     !.raw_command = inp.command, !.raw_memory = inp.memory,
                                     !.arguments = inp.arguments, !.tools = inp.tools,
                                     !.tools_config = inp.tools,
                                     !.model = inp.model, !.max_turns = inp.max_turns,
                                     !.previous_output = inp.previous_output]]
       /\ disk' = disk
  ELSE ExecutePlaced(c, inp,
                     [NoCall EXCEPT !.kind = "execute", !.command = command.text,
                                    !.raw_command = inp.command, !.raw_memory = inp.memory,
                                    !.arguments = inp.arguments, !.tools = inp.tools,
                                    !.tools_config = inp.tools,
                                    !.model = inp.model, !.max_turns = inp.max_turns,
                                    !.memory = memory.text,
                                    !.previous_output = inp.previous_output],
                     folder_name(ExecutePrefix, clock, unique_id), unique_id,
                     makedirs(disk, folder_name(ExecutePrefix, clock, unique_id)))

ExecuteBeginWith(c, inputs) ==
  /\ calls[c].pc = "idle"
  /\ \E inp \in inputs, unique_id \in UuidPrefixes :
       ExecuteReplaced(c, inp, unique_id,
                       replace_arguments(inp.command, inp.arguments),
                       IF inp.memory # <<>> THEN replace_arguments(inp.memory, inp.arguments)
                       ELSE [raised |-> FALSE, text |-> <<>>])
  /\ UNCHANGED <<clock, toolVars, argVars, nodeVars>>

ExecuteBegin(c) == ExecuteBeginWith(c, ExecInputs)

\* subprocess.run raises (the claude executable is missing): the handler of
\* lines 329-339 returns without writing any file.
ExecuteSpawnFails(c) ==
  /\ calls[c].kind = "execute" /\ calls[c].pc = "running"
  /\ calls' = [calls EXCEPT ![c] =
                 [@ EXCEPT !.pc = "returned", !.outcome = "exception",
                           !.response = ExecutionErrorPrefix \o SpawnErrorText,
                           !.metadata = error_metadata(calls[c].folder, SpawnErrorText)]]
  /\ UNCHANGED <<clock, disk, toolVars, argVars, nodeVars>>

\* The external process exits; execute, lines 276-339, builds the response and
\* the metadata, writes the files and returns. A write that raises ends in the
\* handler of lines 329-339.
ExecuteFinish(c) ==
  /\ calls[c].kind = "execute" /\ calls[c].pc = "running"
  /\ \E returncode \in ReturnCodes, stdout \in Stdouts, stderr \in Stderrs :
       \E fail_at \in FailPoints(stdout, stderr) :
         LET call     == calls[c]
             metadata == run_metadata(call.folder, call.model, call.max_turns, call.tools,
                                      returncode, call.arguments, call.mcp_config,
                                      call.mcp_setup_errors)
             exited   == [call EXCEPT !.pc = "returned", !.exited = TRUE,
                                       !.returncode = returncode,
                                       !.stdout = stdout, !.stderr = stderr]
         IN /\ disk' = persist(disk, call.folder, metadata, stdout, stderr, fail_at)
            /\ calls' = [calls EXCEPT ![c] =
                           IF fail_at = "none"
                           THEN [exited EXCEPT !.outcome = "completed",
                                               !.response = response_of(returncode, stdout, stderr),
                                               !.metadata = metadata]
                           ELSE [exited EXCEPT !.outcome = "exception",
                                               !.response = ExecutionErrorPrefix \o WriteErrorText,
                                               !.metadata = error_metadata(call.folder, WriteErrorText)]]
  /\ UNCHANGED <<clock, toolVars, argVars, nodeVars>>

\* scrape_reddit, lines 407-462: ensure the Playwright MCP, allocate the
\* session folder and start the external process. Without the MCP the node
\* returns before any folder is made.
ScrapeBeginWith(c, list_runs, add_runs, sources) ==
  /\ calls[c].pc = "idle"
  /\ \E list_run \in list_runs, add_run \in add_runs, unique_id \in UuidPrefixes,
        src \in sources :
       LET name   == folder_name(ScraperPrefix, clock, unique_id)
           mcp    == ensure_playwright_mcp(list_run, add_run)
           call   == [NoCall EXCEPT !.kind = "scrape", !.model = ModelDefault,
                                    !.mcp_list = list_run, !.mcp_log = mcp.log]
       IN IF ~mcp.ok
          THEN /\ calls' = [calls EXCEPT ![c] =
                              [call EXCEPT !.pc = "returned", !.outcome = "mcp_failed",
                                           !.response = McpFailedText,
                                           !.result = error_result(McpFailedText)]]
               /\ disk' = disk
          ELSE /\ disk' = makedirs(disk, name)
               /\ calls' = [calls EXCEPT ![c] =
                              [call EXCEPT !.pc = "running", !.folder = name, !.now = clock,
                                           !.unique_id = unique_id, !.cwd = name,
                                           !.source = src,
                                           !.url = build_reddit_url(src.source_type,
                                                                    src.source, src.sort_by,
                                                                    src.time_filter)]]
  /\ UNCHANGED <<clock, toolVars, argVars, nodeVars>>

ScrapeBegin(c) == ScrapeBeginWith(c, CoarseListRuns, CoarseAddRuns, CoarseSources)

\* subprocess.run raises something other than the timeout: lines 539-542.
ScrapeSpawnFails(c) ==
  /\ calls[c].kind = "scrape" /\ calls[c].pc = "running"
  /\ calls' = [calls EXCEPT ![c] =
                 [@ EXCEPT !.pc = "returned", !.outcome = "exception",
                           !.response = ScrapingErrorPrefix \o SpawnErrorText,
                           !.result = error_result(ScrapingErrorPrefix \o SpawnErrorText)]]
  /\ UNCHANGED <<clock, disk, toolVars, argVars, nodeVars>>

\* The 600 s timeout expires, lines 518-537: what the process has left is
\* read and reported; no metadata file is written.
ScrapeTimedOut(c, files, result) ==
  /\ disk' = files
  /\ calls' = [calls EXCEPT ![c] =
                 [@ EXCEPT !.pc = "returned", !.outcome = "timeout",
                           !.response = result.summary,
                           !.metadata = result.metadata,
                           !.result = result]]

ScrapeTimeoutLeft(c, files) == ScrapeTimedOut(c, files, timeout_result(files, calls[c].folder))

ScrapeTimeoutWith(c, lefts) ==
  /\ calls[c].kind = "scrape" /\ calls[c].pc = "running"
  /\ \E left \in lefts : ScrapeTimeoutLeft(c, process_files(disk, calls[c].folder, left))
  /\ UNCHANGED <<clock, toolVars, argVars, nodeVars>>

ScrapeTimeout(c) == ScrapeTimeoutWith(c, CoarseLefts)

\* The external process exits, lines 464-516: error_log.txt on a non-zero exit
\* with error text, the data read back, the metadata file written. A write
\* that raises ends in the handler of lines 539-542.
ScrapeReturned(c, exited, fail_at, logged, metadata, result) ==
  IF fail_at = "none"
  THEN /\ disk' = write_file(logged, exited.folder, MetadataFile, MetaContent(metadata))
       /\ calls' = [calls EXCEPT ![c] =
                      [exited EXCEPT !.outcome = "completed", !.metadata = metadata,
                                     !.response = result.summary,
                                     !.result = result]]
  ELSE /\ disk' = logged
       /\ calls' = [calls EXCEPT ![c] =
                      [exited EXCEPT !.outcome = "exception",
                                     !.response = ScrapingErrorPrefix \o WriteErrorText,
                                     !.result = error_result(ScrapingErrorPrefix
                                                               \o WriteErrorText)]]

ScrapeSaved(c, exited, fail_at, logged, metadata) ==
  ScrapeReturned(c, exited, fail_at, logged, metadata,
                 finish_result(logged, exited.folder, metadata))

ScrapeRead(c, exited, fail_at, logged) ==
  ScrapeSaved(c, exited, fail_at, logged,
              scrape_metadata(exited.folder, exited.model, item_count_of(logged, exited.folder),
                              DOMAIN logged[exited.folder]))

ScrapeLogged(c, returncode, stderr, fail_at, files) ==
  ScrapeRead(c,
             [calls[c] EXCEPT !.pc = "returned", !.exited = TRUE, !.returncode = returncode,
                              !.stderr = stderr],
             fail_at,
             IF returncode # 0 /\ stderr # <<>>
             THEN write_file(files, calls[c].folder, ErrorLogFile, TextContent(stderr))
             ELSE files)

ScrapeFinishWith(c, lefts) ==
  /\ calls[c].kind = "scrape" /\ calls[c].pc = "running"
  /\ \E returncode \in ReturnCodes, stderr \in Stderrs, left \in lefts,
        fail_at \in {"none", "metadata"} :
       ScrapeLogged(c, returncode, stderr, fail_at, process_files(disk, calls[c].folder, left))
  /\ UNCHANGED <<clock, toolVars, argVars, nodeVars>>

ScrapeFinish(c) == ScrapeFinishWith(c, CoarseLefts)

Next ==
  \/ Tick
  \/ \E c \in Calls :
       \/ ExecuteBegin(c)
       \/ ExecuteSpawnFails(c)
       \/ ExecuteFinish(c)
       \/ ScrapeBegin(c)
       \/ ScrapeSpawnFails(c)
       \/ ScrapeTimeout(c)
       \/ ScrapeFinish(c)

Spec == Init /\ [][Next]_vars

\* ------------------------------------------------------------------------
\* SpecMcp: the MCP Manager on enumerated inputs and CLI outcomes
\* ------------------------------------------------------------------------

InitMcp ==
  /\ m_pc = "input"
  /\ m_in \in McpInputs
  /\ m_out = NoMcpOut
  /\ ToolsIdle /\ ArgsIdle /\ SessionsIdle /\ MemoryIdle /\ ReaderIdle /\ ContextIdle

\* The host graph runs the MCP Manager node; the external CLI answers each
\* sub-command the node invokes.
ManageMcp ==
  /\ m_pc = "input"
  /\ \E run \in RunOutcomes, list_run \in ListOutcomes :
       m_out' = manage_mcp(m_in.action, m_in.mcp_name, m_in.mcp_config, m_in.list_format,
                           run, list_run)
  /\ m_pc' = "done"
  /\ UNCHANGED <<m_in, toolVars, argVars, sessionVars, memoryVars, readerVars, contextVars>>

NextMcp == ManageMcp

SpecMcp == InitMcp /\ [][NextMcp]_vars

\* ------------------------------------------------------------------------
\* SpecMemory: the Memory Builder on enumerated inputs and files
\* ------------------------------------------------------------------------

InitMemory ==
  /\ mem_pc = "input"
  /\ mem_in \in MemoryInputs
  /\ mem_out = <<>>
  /\ ToolsIdle /\ ArgsIdle /\ SessionsIdle /\ McpIdle /\ ReaderIdle /\ ContextIdle

\* The host graph runs the Memory Builder node.
BuildMemory ==
  /\ mem_pc = "input"
  /\ mem_out' = build_memory(mem_in.memory_type, mem_in.memory_file, mem_in.text_memory,
                              mem_in.file_path, mem_in.claude_md_content, mem_in.append_to,
                              mem_in.file)
  /\ mem_pc' = "done"
  /\ UNCHANGED <<mem_in, toolVars, argVars, sessionVars, mcpVars, readerVars, contextVars>>

NextMemory == BuildMemory

SpecMemory == InitMemory /\ [][NextMemory]_vars

\* ------------------------------------------------------------------------
\* SpecReader: the Reader on enumerated inputs and output roots
\* ------------------------------------------------------------------------

InitReader ==
  /\ r_pc = "input"
  /\ r_in \in ReaderInputs
  /\ r_out = NoReaderOut
  /\ clock = 0
  /\ disk \in ReaderDisks
  /\ calls = [c \in Calls |-> NoCall]
  /\ ToolsIdle /\ ArgsIdle /\ McpIdle /\ MemoryIdle /\ ContextIdle

\* The host graph runs the Reader node on the output root as it is.
ReadOutput ==
  /\ r_pc = "input"
  /\ LET found   == glob(disk, r_in.output_folder, r_in.file_pattern)
         present == IF r_in.output_folder \in DOMAIN disk
                    THEN {Entry(<<>>, r_in.output_folder, name) :
                            name \in DOMAIN disk[r_in.output_folder]}
                    ELSE found
     IN \E order \in Orders(found), unreadable \in {{}} \cup {{e} : e \in present \cup found} :
          r_out' = read_output(disk, r_in.output_folder, r_in.file_pattern, r_in.read_mode,
                               r_in.specific_file, r_in.max_files, order, unreadable)
  /\ r_pc' = "done"
  /\ UNCHANGED <<r_in, toolVars, argVars, sessionVars, mcpVars, memoryVars, contextVars>>

NextReader == ReadOutput

SpecReader == InitReader /\ [][NextReader]_vars

\* ------------------------------------------------------------------------
\* SpecContext: the Context node, and the Reader on the same folder, on
\* enumerated inputs and output roots
\* ------------------------------------------------------------------------

\* The Reader input of a graph that reads every file of the folder the
\* Context node is given.
reader_input_for(output_folder) ==
  [output_folder |-> output_folder, file_pattern |-> "*", read_mode |-> "read_all",
   specific_file |-> "", max_files |-> 10]

InitContext ==
  /\ ctx_pc = "input"
  /\ ctx_in \in ContextInputs
  /\ ctx_out = NoContextOut
  /\ r_pc = "input"
  /\ r_in = reader_input_for(ctx_in.output_folder)
  /\ r_out = NoReaderOut
  /\ clock = 0
  /\ disk \in ContextDisks
  /\ calls = [c \in Calls |-> NoCall]
  /\ ToolsIdle /\ ArgsIdle /\ McpIdle /\ MemoryIdle

\* The files of the folder whose read may raise: none, or one of them.
UnreadableChoices(disk_now, output_folder) ==
  {{}} \cup (IF output_folder \in DOMAIN disk_now
             THEN {{n} : n \in DOMAIN disk_now[output_folder]} ELSE {})

\* The host graph runs the Context node on the output root as it is.
BuildContext ==
  /\ ctx_pc = "input"
  /\ \E unreadable \in UnreadableChoices(disk, ctx_in.output_folder) :
       ctx_out' = build_context(disk, ctx_in.output_folder, ctx_in.context_mode,
                                ctx_in.base_memory, ctx_in.file_filter, ctx_in.custom_template,
                                ctx_in.max_file_size_kb, unreadable)
  /\ ctx_pc' = "done"
  /\ UNCHANGED <<ctx_in, toolVars, argVars, sessionVars, mcpVars, memoryVars, readerVars>>

NextContext == BuildContext \/ ReadOutput

SpecContext == InitContext /\ [][NextContext]_vars

\* ------------------------------------------------------------------------
\* SpecScrape: one scrape_reddit invocation for every outcome of its
\* external calls
\* ------------------------------------------------------------------------

ScrapeEnsure == ScrapeBeginWith("c1", ScrapeListRuns, RunOutcomes, ScrapeSources)
ScrapeTimesOut == ScrapeTimeoutWith("c1", AllLefts)
ScrapeExits == ScrapeFinishWith("c1", AllLefts)

NextScrape ==
  \/ ScrapeEnsure
  \/ ScrapeSpawnFails("c1")
  \/ ScrapeTimesOut
  \/ ScrapeExits

SpecScrape == Init /\ [][NextScrape]_vars

\* ------------------------------------------------------------------------
\* SpecPreflight: one execute invocation for every MCP configuration signal
\* ------------------------------------------------------------------------

ExecutePreflight == ExecuteBeginWith("c1", PreflightInputs)

NextPreflight ==
  \/ ExecutePreflight
  \/ ExecuteSpawnFails("c1")
  \/ ExecuteFinish("c1")

SpecPreflight == Init /\ [][NextPreflight]_vars

\* ------------------------------------------------------------------------
\* SpecCompose: the prompt and the command line of one execute invocation
\* ------------------------------------------------------------------------

\* The base output root is empty or holds the session an earlier run left.
InitCompose ==
  /\ ToolsIdle /\ ArgsIdle /\ NodesIdle
  /\ clock = 0
  /\ disk \in ReaderDisks
  /\ calls = [c \in Calls |-> NoCall]

ExecuteCompose == ExecuteBeginWith("c1", ComposeInputs)

NextCompose ==
  \/ ExecuteCompose
  \/ ExecuteSpawnFails("c1")

SpecCompose == InitCompose /\ [][NextCompose]_vars

\* ------------------------------------------------------------------------
\* Claims about the Tool Permission Builder and its round trip (SpecTools)
\* ------------------------------------------------------------------------

\* The fixed tool set of every preset.
PresetTools ==
  [all       |-> {Read, Write, Edit, MultiEdit, Bash, Grep, Glob, LS, WebFetch, WebSearch},
   read_only |-> {Read, Grep, Glob, LS},
   file_ops  |-> {Read, Write, Edit, MultiEdit, Grep, Glob, LS},
   code_dev  |-> {Read, Write, Edit, MultiEdit, Bash, Grep, Glob, LS},
   web       |-> {WebFetch, WebSearch},
   minimal   |-> {Read, Write},
   none      |-> {}]

\* The names a comma-separated list of entries holds: trimmed, blanks dropped.
EntryNames(entries) == {strip(e) : e \in Range(entries)} \ {<<>>}

ExpectedTools ==
  ((IF t_in.preset # "none"
    THEN PresetTools[t_in.preset]
    ELSE toggle_set(t_in.file_read, t_in.file_write, t_in.file_edit,
                    t_in.bash, t_in.search, t_in.web))
     \cup EntryNames(t_in.custom)) \ EntryNames(t_in.remove)

Ascending(seq) == \A i \in 1..(Len(seq) - 1) : str_lt(seq[i], seq[i + 1])

Listed(text) == IF text = <<>> THEN <<>> ELSE split(text, Comma)

\* C1: the tool list configure_tools returns is exactly (S \cup custom) \ remove,
\* in strictly ascending lexicographic order and comma-joined, where S is the
\* preset's tool set under a preset other than "none" (whatever the six
\* toggles are) and the toggle-derived set under "none".
C1_ToolList ==
  t_pc \in {"configured", "assembled"} =>
    LET listed == Listed(t_out.tools_str)
    IN /\ Range(listed) = ExpectedTools
       /\ Ascending(listed)

\* C1 witness: a preset whose toggles contradict it, with a tool added and a
\* tool removed.
C1_Witness ==
  /\ t_pc = "configured"
  /\ t_in.preset = "read_only" /\ t_in.web /\ ~t_in.file_read
  /\ t_in.custom = <<Task>> /\ t_in.remove = <<Bash>>
  /\ t_out.tools_str = join(<<Glob, Grep, LS, Read, Task>>, Comma)

\* C9 (as claimed): the first output ends in the lower-case text "true" or
\* "false" after the marker.
C9_LowercaseFlag ==
  t_pc \in {"configured", "assembled"} =>
    t_out.tools_config =
      t_out.tools_str \o SkipMarker
        \o (IF t_in.skip_permissions THEN TrueLower ELSE FalseLower)

\* C9 (amended): the first output is the comma-joined sorted tool list, then
\* "|skip_permissions:", then Python's text of the boolean: "True" when
\* skip_permissions is set and "False" otherwise.
C9_ConfigFormat ==
  t_pc \in {"configured", "assembled"} =>
    t_out.tools_config =
      t_out.tools_str \o SkipMarker
        \o (IF t_in.skip_permissions THEN TrueText ELSE FalseText)

\* C9 witness: a configuration with skip_permissions set and tools listed.
C9_Witness ==
  /\ t_pc = "configured"
  /\ t_in.skip_permissions
  /\ t_in.preset = "minimal" /\ t_in.custom = <<>> /\ t_in.remove = <<>>
  /\ t_out.tools_config = Read \o Comma \o Write \o SkipMarker \o TrueText

AllowedPairs(cmd) == {i \in 1..(Len(cmd) - 1) : cmd[i] = FlagAllowedTools}

\* C10: from every configuration string of configure_tools the execute node
\* recovers the builder's tool set and boolean, appends one --allowedTools
\* flag per tool and --dangerously-skip-permissions iff the boolean was true.
C10_RoundTrip ==
  t_pc = "assembled" =>
    /\ ~x_cmd.raised
    /\ Range(x_cmd.tool_list) = Range(t_out.tools_list)
    /\ x_cmd.skip_permissions = t_in.skip_permissions
    /\ {x_cmd.cmd_parts[i + 1] : i \in AllowedPairs(x_cmd.cmd_parts)} = Range(t_out.tools_list)
    /\ Cardinality(AllowedPairs(x_cmd.cmd_parts)) = Len(t_out.tools_list)
    /\ (FlagSkipPermissions \in Range(x_cmd.cmd_parts)) = t_in.skip_permissions
\* ------------------------------------------------------------------------
\* Claims about the Argument Map Builder (SpecArgs)
\* ------------------------------------------------------------------------

\* The base map of a call: the object base_arguments holds; the empty map when
\* base_arguments is empty or is not JSON.
BaseValue ==
  IF a_in.base_arguments = <<>> \/ ~json_loads(a_in.base_arguments).ok THEN EmptyDict
  ELSE json_loads(a_in.base_arguments).value

JsonValue == json_loads(a_in.json_arguments)

ResultValue == json_loads(a_out.result_json)

\* C6: build_arguments never raises and returns JSON text, whatever the mode
\* and the three texts are.
C6_NeverRaises ==
  a_pc = "done" => ~a_out.raised /\ ResultValue.ok

\* C7: in json mode with a base map B and a json_arguments text that parses to
\* an object J, the result is the serialization of B overlaid with J: the keys
\* of B in their order, then the keys only J has in J's order, each key with
\* J's value if J has it and B's value otherwise.
C7_JsonOverlay ==
  (/\ a_pc = "done" /\ a_in.input_mode = "json"
   /\ BaseValue.type = "dict"
   /\ JsonValue.ok /\ JsonValue.value.type = "dict")
  => /\ ~a_out.raised
     /\ ResultValue.ok /\ ResultValue.value.type = "dict"
     /\ dict_keys(ResultValue.value) =
          dict_keys(BaseValue)
            \o SelectSeq(dict_keys(JsonValue.value), LAMBDA k : ~dict_has(BaseValue, k))
     /\ \A k \in Range(dict_keys(ResultValue.value)) :
          dict_get(ResultValue.value, k) =
            IF dict_has(JsonValue.value, k) THEN dict_get(JsonValue.value, k)
            ELSE dict_get(BaseValue, k)

\* C7 witness: base {"B":"2"} and input {"A":"1"} have given {"B":"2","A":"1"}.
C7_Witness ==
  /\ a_pc = "done" /\ a_in.input_mode = "json"
  /\ a_in.base_arguments = ObjText(<<Item(KeyB, StrTok(<<"2">>))>>)
  /\ a_in.json_arguments = ObjText(<<Item(KeyA, StrTok(<<"1">>))>>)
  /\ ~a_out.raised
  /\ a_out.result_json =
       ObjText(<<Item(KeyB, StrTok(<<"2">>)), Item(KeyA, StrTok(<<"1">>))>>)

\* C8: in json mode with json_arguments that is not parseable JSON, the call
\* does not fail and returns a map with the key _error and every key the base
\* holds.
C8_ErrorEntry ==
  (a_pc = "done" /\ a_in.input_mode = "json" /\ ~JsonValue.ok)
  => /\ ~a_out.raised
     /\ ResultValue.ok /\ ResultValue.value.type = "dict"
     /\ dict_has(ResultValue.value, ErrorKey)
     /\ \A k \in Range(dict_keys(BaseValue)) : dict_has(ResultValue.value, k)
\* ------------------------------------------------------------------------
\* Claims about the output-folder sessions (Spec)
\* ------------------------------------------------------------------------

Allocated(c) == calls[c].folder # <<>>

HasMetadataFile(c) == MetadataFile \in DOMAIN disk[calls[c].folder]

\* C2: the execute node never raises to the host: whatever the inputs, an
\* exception is caught and execute returns the folder name, an error-prefixed
\* message and a minimal metadata object with the error text.
C2_NeverRaises ==
  \A c \in Calls :
    calls[c].kind = "execute" =>
      /\ calls[c].pc # "raised"
      /\ (calls[c].pc = "returned" /\ calls[c].outcome = "exception") =>
           /\ Allocated(c)
           /\ startswith(calls[c].response, ExecutionErrorPrefix)
           /\ calls[c].metadata.kind = "error"

ExitedExecute(c) ==
  calls[c].kind = "execute" /\ calls[c].pc = "returned" /\ calls[c].exited

ResponseFollowsExitCode(c) ==
  /\ calls[c].returncode = 0 => calls[c].response = calls[c].stdout
  /\ calls[c].returncode # 0 => calls[c].response = ErrorPrefix \o calls[c].stderr
  /\ calls[c].metadata.kind = "run"
  /\ calls[c].metadata.exit_code = calls[c].returncode

\* C3 (as claimed): whenever the external process has exited, execute returns
\* the captured standard output on exit code 0 and "Error: " followed by the
\* captured standard error otherwise, and the metadata records the exit code.
C3_ResponseByExitCode ==
  \A c \in Calls : ExitedExecute(c) => ResponseFollowsExitCode(c)

\* C3 (amended): the same, provided the metadata and raw output files were
\* written without an exception; when a write raises, the response is the
\* "Execution error: " message and the metadata is the minimal error object,
\* which holds no exit code.
C3_ResponseWhenPersisted ==
  \A c \in Calls :
    ExitedExecute(c) =>
      IF calls[c].outcome = "completed" THEN ResponseFollowsExitCode(c)
      ELSE /\ startswith(calls[c].response, ExecutionErrorPrefix)
           /\ calls[c].metadata.kind = "error"

\* C3 witness: a run that exited with a non-zero code and returned the error
\* text behind "Error: ".
C3_Witness ==
  \E c \in Calls :
    /\ ExitedExecute(c) /\ calls[c].outcome = "completed"
    /\ calls[c].returncode = 1 /\ calls[c].stderr # <<>>
    /\ calls[c].response = ErrorPrefix \o calls[c].stderr
    /\ calls[c].metadata.exit_code = 1

Preflighted(c) == calls[c].kind = "execute" /\ calls[c].folder # <<>>

\* C11 (as claimed): a signal starting with "enabled:" records no setup
\* error, one starting with "disabled:" records a setup error, and every
\* signal whose text contains "error" records a setup error.
C11_EveryErrorTextRecorded ==
  \A c \in Calls :
    Preflighted(c) =>
      /\ startswith(calls[c].mcp_config, EnabledTag) => calls[c].mcp_setup_errors = <<>>
      /\ startswith(calls[c].mcp_config, DisabledTag) => calls[c].mcp_setup_errors # <<>>
      /\ contains(calls[c].mcp_config, ErrorWord) => calls[c].mcp_setup_errors # <<>>

\* C11 (amended): the first tag that fits decides. A signal starting with
\* "enabled:" records no setup error, whatever follows the tag; one starting
\* with "disabled:" records the setup error "MCP '<name>' was disabled"; a
\* signal with neither tag records "MCP configuration error: <signal>" exactly
\* when it holds the word error in any letter case; every other signal, the
\* empty and the blank one included, records nothing.
C11_FirstTagDecides ==
  \A c \in Calls :
    Preflighted(c) =>
      LET signal == calls[c].mcp_config
          errors == calls[c].mcp_setup_errors
      IN /\ startswith(signal, EnabledTag) => errors = <<>>
         /\ startswith(signal, DisabledTag) =>
              errors = <<McpQuoteText \o SubSeq(signal, Len(DisabledTag) + 1, Len(signal))
                           \o WasDisabledText>>
         /\ (~startswith(signal, EnabledTag) /\ ~startswith(signal, DisabledTag)) =>
              IF contains(lower(signal), ErrorWord)
              THEN errors = <<McpConfigErrorText \o signal>>
              ELSE errors = <<>>

\* C11 witness: the preflight has run on the signal of an enabled server
\* whose name holds the word error, and has recorded nothing.
C11_Witness ==
  /\ Preflighted("c1")
  /\ calls["c1"].mcp_config = EnabledTag \o ErrorWord \o <<"-">> \o McpName
  /\ calls["c1"].mcp_setup_errors = <<>>
  /\ calls["c1"].pc = "running"

\* C12 (as claimed): for every signal execute spawns the external process,
\* and the recorded setup errors are in the returned and the persisted
\* metadata.
C12_AlwaysSpawnsAndRecords ==
  \A c \in Calls :
    Preflighted(c) =>
      /\ calls[c].pc \in {"running", "returned"}
      /\ calls[c].pc = "returned" =>
           /\ calls[c].metadata.kind = "run"
           /\ calls[c].metadata.mcp_setup_errors = calls[c].mcp_setup_errors
           /\ HasMetadataFile(c)
           /\ disk[calls[c].folder][MetadataFile].meta = calls[c].metadata

\* C12 (amended): no signal makes execute raise or return early: an
\* invocation leaves by an exception only when the arguments or the tool text
\* make it raise, whatever the signal. When the process has exited and the
\* files are written, the returned metadata holds the recorded setup errors
\* and whether a signal was received, and the metadata file holds the same
\* object. When subprocess.run or a write raises, the returned metadata is
\* the minimal error object, which holds no setup errors.
C12_PreflightNeverAborts ==
  \A c \in Calls :
    Preflighted(c) =>
      /\ calls[c].pc = "raised" =>
           cmd_assembly(calls[c].model, DefaultMaxTurns, calls[c].tools).raised
      /\ calls[c].mcp_setup_errors = mcp_preflight(calls[c].mcp_config)
      /\ calls[c].outcome = "completed" =>
           /\ calls[c].metadata.kind = "run"
           /\ calls[c].metadata.mcp_setup_errors = calls[c].mcp_setup_errors
           /\ calls[c].metadata.mcp_config_received = (calls[c].mcp_config # <<>>)
           /\ disk[calls[c].folder][MetadataFile].meta = calls[c].metadata
      /\ calls[c].outcome = "exception" => calls[c].metadata.kind = "error"

\* C12 witness: an invocation with the signal of a disabled server has
\* completed, and its metadata file holds the setup error.
C12_Witness ==
  /\ calls["c1"].outcome = "completed"
  /\ calls["c1"].mcp_config = DisabledTag \o McpName
  /\ Len(disk[calls["c1"].folder][MetadataFile].meta.mcp_setup_errors) = 1

\* ------------------------------------------------------------------------
\* Claims about the MCP Manager (SpecMcp)
\* ------------------------------------------------------------------------

\* The tags of the signalling convention, for the name given.
KnownTags ==
  {ErrorWord, ListedTag, ConfigTag, EnabledTag \o m_in.mcp_name, DisabledTag \o m_in.mcp_name}

\* C13: for every action and every outcome of the external CLI, manage_mcp
\* returns without raising and its second output is one of the known tags.
C13_NeverRaises ==
  m_pc = "done" => ~m_out.raised /\ m_out.tag \in KnownTags

AddInvocations == {i \in DOMAIN m_out.log : m_out.log[i].sub = "add-json"}

first_at(text, piece, from) ==
  LET places == {i \in from..(Len(text) - Len(piece) + 1) :
                   SubSeq(text, i, i + Len(piece) - 1) = piece}
  IN IF places = {} THEN 0 ELSE CHOOSE i \in places : \A j \in places : i <= j

\* The pieces lie in text one after the other, without overlap.
RECURSIVE InOrderFrom(_, _, _)
InOrderFrom(text, pieces, from) ==
  IF pieces = <<>> THEN TRUE
  ELSE LET i == first_at(text, Head(pieces), from)
       IN i # 0 /\ InOrderFrom(text, Tail(pieces), i + Len(Head(pieces)))

InOrder(text, pieces) == InOrderFrom(text, pieces, 1)

\* Combined mode with template content, text and a readable file.
CombinedWithAll ==
  /\ mem_pc = "done"
  /\ mem_in.memory_type = "combined"
  /\ mem_in.claude_md_content # <<>>
  /\ mem_in.text_memory # <<>>
  /\ mem_in.file_path # <<>>
  /\ mem_in.file.exists /\ mem_in.file.readable

AdditionalContextTitle == <<"#","#"," ","A","d","d","i","t","i","o","n","a","l"," ","C","o","n","t","e","x","t">>
FileContentTitle == <<"#","#"," ","F","i","l","e"," ","C","o","n","t","e","n","t">>

\* C15 (as claimed): the output contains, in this order, T, the heading
\* "## Additional Context" followed by X, the heading "## File Content"
\* followed by F.
C15_ContainsAllInOrder ==
  CombinedWithAll =>
    InOrder(mem_out, <<mem_in.claude_md_content, AdditionalContextTitle, mem_in.text_memory,
                       FileContentTitle, mem_in.file.content>>)

\* C15 (amended): the output is the prior memory and a blank line (when prior
\* memory is given), T, a blank line, "## Additional Context", a blank line,
\* X, a blank line, "## File Content", a blank line and F, with the whitespace
\* at both ends of the whole removed. So it contains, in this order, T
\* (without its leading whitespace when no prior memory precedes it), the
\* first heading followed by X, the second heading, and F without its
\* trailing whitespace.
C15_TrimmedInOrder ==
  CombinedWithAll =>
    /\ mem_out =
         strip((IF mem_in.append_to # <<>> THEN mem_in.append_to \o Separator ELSE <<>>)
                 \o mem_in.claude_md_content \o Separator
                 \o AdditionalContextHeading \o mem_in.text_memory \o Separator
                 \o FileContentHeading \o mem_in.file.content)
    /\ InOrder(mem_out,
               <<IF mem_in.append_to # <<>> THEN mem_in.claude_md_content
                 ELSE lstrip(mem_in.claude_md_content),
                 AdditionalContextHeading \o mem_in.text_memory, FileContentTitle,
                 rstrip(mem_in.file.content)>>)

\* C15 witness: template content with a leading blank line and a file that
\* ends in a newline have been combined.
C15_Witness ==
  /\ CombinedWithAll
  /\ mem_in.append_to = <<>>
  /\ mem_in.claude_md_content = <<"\n","T">>
  /\ mem_in.file.content = <<"F","\n">>
  /\ mem_out = <<"T">> \o Separator \o AdditionalContextHeading \o <<"X">> \o Separator
                 \o FileContentHeading \o <<"F">>

\* A file was named and cannot be read: it is missing or reading it fails.
NamedFileFails ==
  /\ mem_pc = "done"
  /\ \/ mem_in.memory_type \in {"file", "combined"} /\ mem_in.file_path # <<>>
     \/ mem_in.memory_type = "memory_file" /\ mem_in.memory_file # CustomMemory
  /\ ~(mem_in.file.exists /\ mem_in.file.readable)

ErrorTitle == <<"E","r","r","o","r">>

\* C16 (as claimed): in the file, memory_file and combined modes a named file
\* that cannot be read gives an inline error text in the output.
C16_ErrorTextAlways ==
  NamedFileFails => contains(mem_out, ErrorTitle)

\* C16 (amended): the call never raises. In the file and memory_file modes a
\* named file that is missing gives "Error: File not found: <path>" or
\* "Error: Memory file not found: <name>", and one whose reading fails gives
\* "Error reading file <path>: ..." or "Error reading memory file <name>:
\* ...". In the combined mode a file whose reading fails gives "Error reading
\* file: ...", and a missing file is left out: the output holds no error text
\* and no "## File Content" heading.
C16_ErrorTextUnlessCombinedMissing ==
  NamedFileFails =>
    IF mem_in.memory_type = "combined"
    THEN IF mem_in.file.exists
         THEN contains(mem_out, <<"E","r","r","o","r"," ","r","e","a","d","i","n","g"," ","f","i","l","e",":"," ">> \o ReadErrorText)
         ELSE ~contains(mem_out, ErrorTitle) /\ ~contains(mem_out, FileContentTitle)
    ELSE IF mem_in.memory_type = "file"
    THEN IF mem_in.file.exists
         THEN contains(mem_out, <<"E","r","r","o","r"," ","r","e","a","d","i","n","g"," ","f","i","l","e"," ">> \o mem_in.file_path)
         ELSE contains(mem_out, <<"E","r","r","o","r",":"," ","F","i","l","e"," ","n","o","t"," ","f","o","u","n","d",":"," ">> \o mem_in.file_path)
    ELSE IF mem_in.file.exists
         THEN contains(mem_out, <<"E","r","r","o","r"," ","r","e","a","d","i","n","g"," ","m","e","m","o","r","y"," ","f","i","l","e"," ">> \o mem_in.memory_file)
         ELSE contains(mem_out, <<"E","r","r","o","r",":"," ","M","e","m","o","r","y"," ","f","i","l","e"," ","n","o","t"," ","f","o","u","n","d",":"," ">> \o mem_in.memory_file)

\* C16 witness: the combined mode was run with template content, text and the
\* path of a missing file, and the output holds the first two only.
C16_Witness ==
  /\ NamedFileFails
  /\ mem_in.memory_type = "combined"
  /\ ~mem_in.file.exists
  /\ mem_in.append_to = <<>>
  /\ mem_in.claude_md_content = <<"T">>
  /\ mem_in.text_memory = <<"X">>
  /\ mem_out = <<"T">> \o Separator \o AdditionalContextHeading \o <<"X">>

\* ------------------------------------------------------------------------
\* Claims about the Reader (SpecReader)
\* ------------------------------------------------------------------------

\* C17: for every read mode, file pattern and max_files, read_output on a
\* folder name that does not exist under the base output root returns an
\* error string, an empty file list and empty metadata, without raising.
C17_MissingFolder ==
  (r_pc = "done" /\ ~folder_exists(disk, r_in.output_folder)) =>
    /\ ~r_out.raised
    /\ startswith(r_out.file_contents.text, ErrorTitle)
    /\ contains(r_out.file_contents.text, r_in.output_folder)
    /\ r_out.file_list = <<>>
    /\ r_out.metadata = TextContent(<<>>)

\* C17 witness: the Reader was run in read_all mode on the name of a session
\* that does not exist, beside a session that does.
C17_Witness ==
  /\ r_pc = "done"
  /\ r_in.output_folder = AbsentFolder
  /\ r_in.read_mode = "read_all"
  /\ ExistingFolder \in DOMAIN disk
  /\ r_out.file_list = <<>>
  /\ startswith(r_out.file_contents.text, ErrorTitle)

\* ------------------------------------------------------------------------
\* Claims about one scrape_reddit invocation (SpecScrape)
\* ------------------------------------------------------------------------

TimedOut(c) == calls[c].kind = "scrape" /\ calls[c].outcome = "timeout"

\* reddit_data.json of the invocation's session folder, parsed.
HasDataFile(c) == RedditDataFile \in DOMAIN disk[calls[c].folder]
DataRead(c) == json_loads(disk[calls[c].folder][RedditDataFile].text)

\* C18 (as claimed): after the timeout, whatever output files exist in the
\* session folder are reported as a partial result with the session folder
\* name, not as a hard failure.
C18_PartialWheneverFilesExist ==
  \A c \in Calls :
    (TimedOut(c) /\ DOMAIN disk[calls[c].folder] # {}) =>
      /\ calls[c].result.output_folder = calls[c].folder
      /\ calls[c].result.metadata.kind = "partial"
      /\ calls[c].result.output_error = <<>>

\* C18 (amended): after the timeout scrape_reddit reads reddit_data.json and
\* scraping_summary.txt of the session folder. When the item count read is
\* positive it returns a partial result: the session folder name, the response
\* "Partial data scraped before timeout: <n> items", the metadata {error,
\* partial_data: true}, the data read, the summary "Timeout - partial data:
\* <n> items" and the count. When the count is 0 (no data file, a data file
\* that is not complete JSON, an empty list, a value without a length) it
\* returns the hard failure ({"error": message}, {}, message, 0), also when
\* files exist. No metadata file is written in either case.
C18_PartialWhenItemsCounted ==
  \A c \in Calls :
    TimedOut(c) =>
      /\ MetadataFile \notin DOMAIN disk[calls[c].folder]
      /\ IF calls[c].result.item_count > 0
         THEN /\ HasDataFile(c)
              /\ calls[c].result.output_folder = calls[c].folder
              /\ calls[c].result.metadata.kind = "partial"
              /\ calls[c].result.metadata.partial_data
              /\ calls[c].result.scraped_data = DataRead(c).value
              /\ calls[c].result.summary =
                   <<"T","i","m","e","o","u","t"," ","-"," ","p","a","r","t","i","a","l"," ","d","a","t","a",":"," ">>
                     \o str_int(calls[c].result.item_count) \o <<" ","i","t","e","m","s">>
         ELSE calls[c].result = error_result(TimeoutText)
      /\ calls[c].result.item_count > 0 <=>
           /\ HasDataFile(c)
           /\ DataRead(c).ok
           /\ count_items(DataRead(c).value).ok
           /\ count_items(DataRead(c).value).n > 0

\* C18 witness: the timeout found a list of two posts and reported it.
C18_Witness ==
  /\ TimedOut("c1")
  /\ HasDataFile("c1")
  /\ disk[calls["c1"].folder][RedditDataFile].text = ScrapedListText
  /\ calls["c1"].result.item_count = 2
  /\ calls["c1"].result.output_folder = calls["c1"].folder

\* The list sub-command exited with code 0 and printed a list that holds an
\* object named playwright.
ReportedPlaywright(run) ==
  /\ ~run.raised
  /\ run.returncode = 0
  /\ json_loads(run.stdout).ok
  /\ json_loads(run.stdout).value.type = "list"
  /\ \E i \in DOMAIN json_loads(run.stdout).value.items :
       LET elem == json_loads(run.stdout).value.items[i].value
       IN /\ has_get(elem)
          /\ dict_has(elem, NameKey)
          /\ dict_get(elem, NameKey) = StrTok(PlaywrightName)

AddsOf(c) == {i \in DOMAIN calls[c].mcp_log : calls[c].mcp_log[i].sub = "add-json"}

\* C19: in every scrape_reddit invocation the list sub-command is invoked
\* before any add sub-command, the add sub-command is invoked only when the
\* list did not report a server named playwright, and the session folder is
\* allocated and the scraping subprocess spawned only if the server was
\* listed or the add sub-command exited with code 0.
C19_ListBeforeAdd ==
  \A c \in Calls :
    (calls[c].kind = "scrape" /\ calls[c].pc # "idle") =>
      /\ calls[c].mcp_log # <<>>
      /\ calls[c].mcp_log[1].sub = "list"
      /\ \A i \in AddsOf(c) : i > 1 /\ ~ReportedPlaywright(calls[c].mcp_list)
      /\ (calls[c].folder # <<>> \/ calls[c].pc = "running"
            \/ calls[c].outcome \in {"completed", "timeout", "exception"}) =>
           \/ ReportedPlaywright(calls[c].mcp_list)
           \/ \E i \in AddsOf(c) :
                ~calls[c].mcp_log[i].raised /\ calls[c].mcp_log[i].returncode = 0
      /\ calls[c].folder # <<>> <=> calls[c].folder \in DOMAIN disk

\* C19 witness: the list named another server only, the add sub-command
\* exited with code 0, and the scraping subprocess is running.
C19_Witness ==
  /\ calls["c1"].kind = "scrape"
  /\ calls["c1"].pc = "running"
  /\ ~ReportedPlaywright(calls["c1"].mcp_list)
  /\ calls["c1"].mcp_list.returncode = 0
  /\ Len(calls["c1"].mcp_log) = 2
  /\ calls["c1"].mcp_log[2].sub = "add-json"
  /\ calls["c1"].mcp_log[2].returncode = 0

\* The invocations that have read reddit_data.json as JSON.
DataCounted(c) ==
  /\ calls[c].kind = "scrape"
  /\ calls[c].outcome \in {"completed", "timeout"}
  /\ HasDataFile(c)
  /\ DataRead(c).ok

PostsKey == <<"p","o","s","t","s">>
DataKey == <<"d","a","t","a">>

\* C20 (as claimed): the item count is the list length for a list, the
\* length of the posts field for an object with a posts field, the length of
\* the data field for an object with a data field and no posts field, and 1
\* for any other object.
C20_CountByShape ==
  \A c \in Calls :
    DataCounted(c) =>
      LET value == DataRead(c).value
          n     == calls[c].result.item_count
      IN /\ value.type = "list" => n = Len(value.items)
         /\ (value.type = "dict" /\ dict_has(value, PostsKey)) =>
              sized(dict_get(value, PostsKey)) /\ n = py_len(dict_get(value, PostsKey))
         /\ (value.type = "dict" /\ ~dict_has(value, PostsKey) /\ dict_has(value, DataKey)) =>
              sized(dict_get(value, DataKey)) /\ n = py_len(dict_get(value, DataKey))
         /\ (value.type = "dict" /\ ~dict_has(value, PostsKey) /\ ~dict_has(value, DataKey)) =>
              n = 1

\* C20 (amended): the item count is the list length for a list; for an object
\* with a posts field it is the length of that field when the field is a
\* list, an object or a string, and 0 when the field is a number or null (len
\* raises, and the data returned is then an error object); the same holds for
\* the data field of an object without a posts field; it is 1 for any other
\* object and 0 for a value that is neither a list nor an object.
C20_CountByShapeWhenSized ==
  \A c \in Calls :
    DataCounted(c) =>
      LET value == DataRead(c).value
          n     == calls[c].result.item_count
          field == IF dict_has(value, PostsKey) THEN dict_get(value, PostsKey)
                   ELSE dict_get(value, DataKey)
      IN IF value.type = "list" THEN n = Len(value.items)
         ELSE IF value.type = "dict"
         THEN IF dict_has(value, PostsKey) \/ dict_has(value, DataKey)
              THEN IF sized(field) THEN n = py_len(field)
                   ELSE /\ n = 0
                        /\ calls[c].outcome = "completed" =>
                             dict_has(calls[c].result.scraped_data, DataErrorKey)
              ELSE n = 1
         ELSE n = 0

\* C20 witness: the process exited leaving {"posts": [1, 2, 3]} and the
\* invocation counted 3 items.
C20_Witness ==
  /\ calls["c1"].kind = "scrape"
  /\ calls["c1"].outcome = "completed"
  /\ HasDataFile("c1")
  /\ DataRead("c1").ok
  /\ DataRead("c1").value.type = "dict"
  /\ dict_has(DataRead("c1").value, PostsKey)
  /\ py_len(dict_get(DataRead("c1").value, PostsKey)) = 3
  /\ calls["c1"].result.item_count = 3

\* ------------------------------------------------------------------------
\* Claims about the steps of one execute invocation (Spec)
\* ------------------------------------------------------------------------

IsExecute(c) == calls[c].kind = "execute"

\* C22 (as claimed): execute returns only after the external process has
\* exited and the metadata file is written.
C22_ReturnsAfterMetadata ==
  \A c \in Calls :
    (IsExecute(c) /\ calls[c].pc = "returned") => calls[c].exited /\ HasMetadataFile(c)

\* The order of the steps, as far as a state shows it.
StepsInOrder(c) ==
  /\ calls[c].pc \in {"running", "returned"} =>
       /\ calls[c].folder \in DOMAIN disk
       /\ calls[c].cwd = calls[c].folder
       /\ calls[c].cmd_parts # <<>>
  /\ calls[c].exited => calls[c].pc = "returned"
  /\ calls[c].outcome = "completed" => calls[c].exited /\ HasMetadataFile(c)
  /\ (calls[c].pc = "returned" /\ calls[c].outcome # "completed") =>
       /\ calls[c].outcome = "exception"
       /\ calls[c].metadata.kind = "error"
       /\ calls[c].response =
            ExecutionErrorPrefix \o (IF calls[c].exited THEN WriteErrorText ELSE SpawnErrorText)

\* The files of a folder, none for a folder that does not exist.
FilesOf(d, folder) == IF folder \in DOMAIN d THEN d[folder] ELSE <<>>

\* One step of the system keeps the order: a file is written only by the step
\* in which the process of the folder's invocation exits; a running process
\* is left only by its exit or by the exception of its spawn; a returned
\* invocation stays as it is.
StepKeepsOrder(c) ==
  /\ (IsExecute(c) /\ calls[c].pc = "running") =>
       /\ calls'[c].pc \in {"running", "returned"}
       /\ calls'[c].pc = "returned" => calls'[c].exited \/ calls'[c].outcome = "exception"
       /\ calls'[c].folder = calls[c].folder
  /\ (IsExecute(c) /\ calls[c].pc \in {"returned", "raised"}) => calls'[c] = calls[c]
  /\ \A name \in {MetadataFile, RawOutputFile, RawErrorFile} :
       (IsExecute(c) /\ calls[c].folder \in DOMAIN disk
        /\ (name \in DOMAIN disk'[calls[c].folder]
              /\ (name \notin DOMAIN disk[calls[c].folder]
                    \/ disk'[calls[c].folder][name] # disk[calls[c].folder][name]))) =>
         \E w \in Calls :
           /\ calls[w].folder = calls[c].folder
           /\ calls[w].pc = "running"
           /\ calls'[w].pc = "returned" /\ calls'[w].exited

\* C22 (amended): within every execute invocation the session folder is
\* created before the external process is spawned, the process runs with that
\* folder as its working directory, the metadata and raw output files are
\* written only in the step after the process has exited, a spawned process is
\* never cancelled, and execute returns its completed result only after the
\* process has exited and the metadata is written. It also returns, with the
\* "Execution error: " result and the minimal metadata, when the spawn raises
\* (no process ran, no file is written) and when a write raises after the exit
\* (the metadata file may then be missing).
C22_StepsInOrder ==
  /\ [](\A c \in Calls : IsExecute(c) => StepsInOrder(c))
  /\ [][\A c \in Calls : StepKeepsOrder(c)]_vars

\* C22 witness: an execute invocation has returned after its process exited,
\* with the metadata file in the folder the process ran in.
C22_Witness ==
  /\ IsExecute("c1")
  /\ calls["c1"].pc = "returned" /\ calls["c1"].exited /\ calls["c1"].outcome = "completed"
  /\ calls["c1"].cwd = calls["c1"].folder
  /\ HasMetadataFile("c1")
  /\ calls["c2"].pc = "running"

\* ------------------------------------------------------------------------
\* Claims about the address the scraper builds (SpecScrape)
\* ------------------------------------------------------------------------

\* s without one leading prefix, when it has it.
without_prefix(s, prefix) ==
  IF startswith(s, prefix) THEN SubSeq(s, Len(prefix) + 1, Len(s)) ELSE s

Addressed(c) == calls[c].kind = "scrape" /\ calls[c].url # <<>>

\* C29: for source type subreddit the address is
\* https://reddit.com/r/<name>/<sort_by>/, with ?t=<time_filter> appended
\* exactly when sort_by is top or controversial, where <name> is the source
\* without surrounding whitespace and without one optional leading "/r/", every
\* other character kept; for source type user the username is the source
\* without surrounding whitespace and without one optional leading "/u/" or
\* "u/", every other character kept.
C29_NameKept ==
  \A c \in Calls :
    Addressed(c) =>
      LET src == calls[c].source
      IN /\ src.source_type = "subreddit" =>
              calls[c].url =
                RedditHost \o <<"r","/">> \o without_prefix(strip(src.source), <<"/","r","/">>) \o <<"/">>
                  \o src.sort_by \o <<"/">>
                  \o (IF src.sort_by \in {<<"t","o","p">>, <<"c","o","n","t","r","o","v","e","r","s","i","a","l">>}
                      THEN <<"?","t","=">> \o src.time_filter ELSE <<>>)
         /\ src.source_type = "user" =>
              calls[c].url =
                RedditHost \o <<"u","s","e","r","/">>
                  \o without_prefix(without_prefix(strip(src.source), <<"/","u","/">>), <<"u","/">>)

\* ------------------------------------------------------------------------
\* Claims about the command line and the prompt of execute (SpecCompose)
\* ------------------------------------------------------------------------

\* The execute invocations whose command line was built.
Assembled(c) == IsExecute(c) /\ calls[c].pc \in {"running", "returned"}

\* The tools configuration as given: the text before the marker, and whether
\* the text after the marker reads true.
ConfiguredTools(c) ==
  IF contains(calls[c].tools_config, SkipMarker)
  THEN SubSeq(calls[c].tools_config, 1, first_at(calls[c].tools_config, SkipMarker, 1) - 1)
  ELSE calls[c].tools_config

ConfiguredSkip(c) ==
  /\ contains(calls[c].tools_config, SkipMarker)
  /\ lower(SubSeq(calls[c].tools_config,
                  first_at(calls[c].tools_config, SkipMarker, 1) + Len(SkipMarker),
                  Len(calls[c].tools_config))) = TrueLower

\* C23: the command line built by execute is exactly claude, -p, --max-turns,
\* <max_turns>; then --model <model> if and only if model is not "default";
\* then one --allowedTools <tool> pair per tool in the order of the tool list;
\* then --dangerously-skip-permissions last if and only if skip-permissions
\* is true. Without a skip_permissions marker the flag is absent.
C23_CommandLine ==
  \A c \in Calls :
    Assembled(c) =>
      LET cmd == calls[c].cmd_parts
          tl  == tool_list_of(ConfiguredTools(c))
          m   == IF calls[c].model # ModelDefault THEN 2 ELSE 0
          k   == IF ConfiguredSkip(c) THEN 1 ELSE 0
      IN /\ Len(cmd) = 4 + m + 2 * Len(tl) + k
         /\ SubSeq(cmd, 1, 4) = <<ClaudeExe, FlagP, FlagMaxTurns, str_int(calls[c].max_turns)>>
         /\ m = 2 => SubSeq(cmd, 5, 6) = <<FlagModel, calls[c].model>>
         /\ \A i \in 1..Len(tl) :
              cmd[4 + m + 2 * i - 1] = FlagAllowedTools /\ cmd[4 + m + 2 * i] = tl[i]
         /\ k = 1 => cmd[Len(cmd)] = FlagSkipPermissions
         /\ ~contains(calls[c].tools_config, SkipMarker) =>
              \A i \in 1..Len(cmd) : cmd[i] # FlagSkipPermissions

\* C23 witness: a builder output with the marker True and the model opus gave
\* the model flag, two tool pairs and the skip flag last.
C23_Witness ==
  /\ Assembled("c1")
  /\ calls["c1"].tools_config = BuilderTools
  /\ calls["c1"].cmd_parts =
       <<ClaudeExe, FlagP, FlagMaxTurns, <<"1","2">>, FlagModel, ModelOpus,
         FlagAllowedTools, Read, FlagAllowedTools, Write, FlagSkipPermissions>>

\* The previous session named exists under the base output root.
PreviousExists(c) ==
  calls[c].previous_output # <<>> /\ calls[c].previous_output \in DOMAIN disk

\* C24: the prompt consists, in this order, of the memory block when memory
\* is non-empty, the previous-output block if and only if a previous session
\* name was supplied and its folder exists under the base output root, the
\* command block, and the output-instructions block naming the new session
\* folder; the last two are present for every input.
C24_PromptOrder ==
  \A c \in Calls :
    Assembled(c) =>
      LET prompt == calls[c].prompt
          memory_block == IF calls[c].memory # <<>>
                          THEN <<MemoryHeading, calls[c].memory>> ELSE <<>>
          previous_block == IF PreviousExists(c)
                            THEN <<PreviousHeading, folder_path(calls[c].previous_output)>>
                            ELSE <<>>
      IN /\ InOrder(prompt, memory_block \o previous_block
                              \o <<CommandHeading, calls[c].command, OutputHeading,
                                   folder_path(calls[c].folder)>>)
         /\ contains(prompt, MemoryHeading) <=> calls[c].memory # <<>>
         /\ calls[c].memory # <<>> => startswith(prompt, MemoryHeading \o calls[c].memory)
         /\ contains(prompt, PreviousHeading) <=> PreviousExists(c)
         /\ endswith(prompt, OutputHeading \o CreateAllText \o folder_path(calls[c].folder)
                               \o DoNotCreateText)

\* C24 witness: a prompt with memory and an existing previous session holds
\* all four blocks.
C24_Witness ==
  /\ Assembled("c1")
  /\ calls["c1"].memory # <<>>
  /\ calls["c1"].previous_output = ExistingFolder
  /\ ExistingFolder \in DOMAIN disk
  /\ InOrder(calls["c1"].prompt,
             <<MemoryHeading, PreviousHeading, CommandHeading, OutputHeading>>)

\* ------------------------------------------------------------------------
\* Claims about the files of a session (Spec)
\* ------------------------------------------------------------------------

\* The folder of c holds file name exactly when text is not empty, and then
\* with text in it.
HoldsExactly(c, name, text) ==
  /\ name \in DOMAIN disk[calls[c].folder] <=> text # <<>>
  /\ text # <<>> => disk[calls[c].folder][name] = TextContent(text)

RawFilesAsCaptured(c) ==
  /\ HoldsExactly(c, RawOutputFile, calls[c].stdout)
  /\ HoldsExactly(c, RawErrorFile, calls[c].stderr)
  /\ HasMetadataFile(c)
  /\ disk[calls[c].folder][MetadataFile] = MetaContent(calls[c].metadata)

\* No other invocation obtained the folder of c.
FolderOwnedBy(c) == \A d \in Calls \ {c} : calls[d].folder # calls[c].folder

\* C25 (as claimed): after an execute run whose subprocess exited, with any
\* exit code, the session folder holds _claude_raw_output.txt exactly when
\* the captured standard output is not empty and _claude_raw_error.txt exactly
\* when the captured standard error is not empty, each with the captured
\* text, and the metadata returned equals the metadata written.
C25_RawFilesAfterExit ==
  \A c \in Calls : ExitedExecute(c) => RawFilesAsCaptured(c)

\* C25 (amended): the same, for a run whose files were all written without
\* an exception and whose session folder no other invocation obtained. When
\* a write raises, the files after it are missing and the metadata returned
\* is the minimal error object, not the one written; when two invocations
\* obtained the same folder, the folder holds the files of both, the later
\* write replacing the earlier.
C25_RawFilesWhenPersisted ==
  \A c \in Calls :
    ExitedExecute(c) =>
      /\ (calls[c].outcome = "completed" /\ FolderOwnedBy(c)) => RawFilesAsCaptured(c)
      /\ calls[c].outcome # "completed" =>
           /\ calls[c].metadata.kind = "error"
           /\ HasMetadataFile(c) => disk[calls[c].folder][MetadataFile].meta.kind = "run"

\* C25 witness: a run that exited with a non-zero code, captured error text
\* and no output, and left the error file and the metadata but no output
\* file.
C25_Witness ==
  /\ ExitedExecute("c1") /\ calls["c1"].outcome = "completed" /\ FolderOwnedBy("c1")
  /\ calls["c1"].returncode = 1
  /\ calls["c1"].stdout = <<>> /\ calls["c1"].stderr # <<>>
  /\ RawOutputFile \notin DOMAIN disk[calls["c1"].folder]
  /\ disk[calls["c1"].folder][RawErrorFile] = TextContent(calls["c1"].stderr)
  /\ disk[calls["c1"].folder][MetadataFile] = MetaContent(calls["c1"].metadata)

\* ------------------------------------------------------------------------
\* Context and Reader: the content of an existing session folder
\* ------------------------------------------------------------------------

ContextOnExisting == ctx_pc = "done" /\ ctx_in.output_folder \in DOMAIN disk
ReaderOnExisting == r_pc = "done" /\ r_in.output_folder \in DOMAIN disk

\* C21: on an existing session folder, whatever files it holds, build_context
\* and read_output return a string result and never raise.
C21_NeverRaise ==
  /\ ContextOnExisting => ~ctx_out.raised
  /\ ReaderOnExisting => ~r_out.raised

\* C30: build_context called with a non-empty base_memory returns a memory
\* that begins with base_memory, for every output_folder (empty, missing or
\* existing) and every context mode.
C30_BeginsWithBaseMemory ==
  (ctx_pc = "done" /\ ~ctx_out.raised /\ ctx_in.base_memory # <<>>)
    => startswith(ctx_out.memory, ctx_in.base_memory)

\* ------------------------------------------------------------------------
\* Reader: the cap on the files and the metadata file
\* ------------------------------------------------------------------------

ReaderDone == r_pc = "done" /\ ~r_out.raised /\ folder_exists(disk, r_in.output_folder)

\* The files read_all has put in file_contents: one "=== path ===" line each.
sections_read(text) ==
  Cardinality({i \in 1..(Len(text) - 3) : SubSeq(text, i, i + 3) = <<"=","=","="," ">>})

\* The outputs list at most max_files files, none of them the metadata file,
\* and list_files and read_all name and read no others.
ListedCappedAndFiltered ==
  /\ Len(r_out.file_list) <= r_in.max_files
  /\ \A i \in DOMAIN r_out.file_list :
       ~endswith(r_out.file_list[i].path, FileNameText(MetadataFile))
  /\ r_in.read_mode \in {"list_files", "read_all"}
       => ~contains(r_out.file_contents.text, FileNameText(MetadataFile))
  /\ r_in.read_mode = "read_all"
       => sections_read(r_out.file_contents.text) = Len(r_out.file_list)

\* file_contents is what the metadata file of the folder holds.
MetadataFileRead ==
  /\ r_in.output_folder \in DOMAIN disk
  /\ MetadataFile \in DOMAIN disk[r_in.output_folder]
  /\ r_out.file_contents = disk[r_in.output_folder][MetadataFile]

\* C27 as stated: in every read mode at most max_files files are listed and
\* read, and the metadata file is never listed or read.
C27_NeverMetadata == ReaderDone => (ListedCappedAndFiltered /\ ~MetadataFileRead)

\* C27: in every read mode at most max_files files are listed, read_all reads
\* the listed files only, and the metadata file is neither listed nor read,
\* except by read_specific when specific_file names it.
C27_CappedAndFiltered ==
  ReaderDone =>
    /\ ListedCappedAndFiltered
    /\ MetadataFileRead => (r_in.read_mode = "read_specific" /\ r_in.specific_file = MetadataFile)

\* read_all with max_files = 1 on a folder that holds two files besides the
\* metadata file.
C27_Witness ==
  /\ ReaderDone
  /\ r_in.read_mode = "read_all" /\ r_in.max_files = 1
  /\ r_in.output_folder \in DOMAIN disk
  /\ {MetadataFile, RawOutputFile, RawErrorFile} \subseteq DOMAIN disk[r_in.output_folder]
  /\ r_in.file_pattern = "*"
  /\ Len(r_out.file_list) = 1
  /\ sections_read(r_out.file_contents.text) = 1

\* ------------------------------------------------------------------------
\* SpecSessions: execute and scraper invocations with a Reader and a Context
\* node that read a session folder at any moment between their steps
\* ------------------------------------------------------------------------

\* The folder an invocation of second 0 obtains.
FirstFolder == folder_name(ExecutePrefix, 0, <<"0","a","1","b","2","c","3","d">>)

InitSessions ==
  /\ ToolsIdle /\ ArgsIdle /\ SessionsIdle /\ McpIdle /\ MemoryIdle
  /\ r_pc = "input"
  /\ r_in = [NoReaderIn EXCEPT !.output_folder = FirstFolder, !.file_pattern = "*.json"]
  /\ r_out = NoReaderOut
  /\ ctx_pc = "input"
  /\ ctx_in = [NoContextIn EXCEPT !.output_folder = FirstFolder, !.context_mode = "custom"]
  /\ ctx_out = NoContextOut

\* One execute input: two invocations of it differ in what the process
\* returns.
SessionInputs == {i \in ExecInputs : i.tools = DefaultTools /\ i.model = ModelSonnet}

\* Two invocations within one second, where they can obtain the same folder
\* name: each an execute run, the second possibly a scraper run.
NextSessions ==
  \/ \E c \in Calls :
       \/ ExecuteBeginWith(c, SessionInputs)
       \/ ExecuteSpawnFails(c)
       \/ ExecuteFinish(c)
  \/ ScrapeBegin("c2")
  \/ ScrapeSpawnFails("c2")
  \/ ScrapeTimeout("c2")
  \/ ScrapeFinish("c2")
  \/ ReadOutput
  \/ BuildContext

SpecSessions == InitSessions /\ [][NextSessions]_vars

\* ------------------------------------------------------------------------
\* SpecReplace: execute on commands, memories and argument maps that put
\* replace_arguments through its cases
\* ------------------------------------------------------------------------

ExecuteReplace == ExecuteBeginWith("c1", ReplaceInputs)

NextReplace == ExecuteReplace \/ ExecuteSpawnFails("c1")

SpecReplace == Init /\ [][NextReplace]_vars

\* ------------------------------------------------------------------------
\* replace_arguments: the placeholders left in the result
\* ------------------------------------------------------------------------

placeholder(key) == <<"$", "{">> \o key \o <<"}">>

\* The argument map of an execute call, when its arguments text is a JSON
\* object.
ArgumentMap(c) == json_loads(calls[c].arguments)
HasMap(c) ==
  /\ calls[c].kind = "execute" /\ calls[c].pc # "idle"
  /\ calls[c].arguments # <<>>
  /\ ArgumentMap(c).ok /\ ArgumentMap(c).value.type = "dict"

\* No placeholder of a key of the map is left in the command or the memory.
NoPlaceholderLeft(c) ==
  \A i \in DOMAIN ArgumentMap(c).value.items :
    /\ ~contains(calls[c].command, placeholder(ArgumentMap(c).value.items[i].key))
    /\ ~contains(calls[c].memory, placeholder(ArgumentMap(c).value.items[i].key))

\* Arguments text that is not JSON leaves the command and the memory as given.
UnchangedWhenNotJson(c) ==
  (calls[c].kind = "execute" /\ calls[c].pc # "idle" /\ ~ArgumentMap(c).ok)
    => (calls[c].command = calls[c].raw_command /\ calls[c].memory = calls[c].raw_memory)

PlainValues(c) ==
  \A i \in DOMAIN ArgumentMap(c).value.items :
    \A j \in DOMAIN ArgumentMap(c).value.items[i].value.text :
      ArgumentMap(c).value.items[i].value.text[j] \notin {"$", "{", "}"}

\* A placeholder opens inside another: "${" twice with no "}" between.
Nested(text) ==
  \E i, j \in 1..(Len(text) - 1) :
    /\ i < j
    /\ SubSeq(text, i, i + 1) = <<"$", "{">> /\ SubSeq(text, j, j + 1) = <<"$", "{">>
    /\ \A k \in i..j : text[k] # "}"

HasMetadata(disk_now, folder) ==
  folder \in DOMAIN disk_now /\ MetadataFile \in DOMAIN disk_now[folder]

\* No session folder and no file of one is removed by the step.
FoldersKept ==
  /\ DOMAIN disk \subseteq DOMAIN disk'
  /\ \A folder \in DOMAIN disk : DOMAIN disk[folder] \subseteq DOMAIN disk'[folder]

\* A metadata file that exists is left as it is by the step.
MetadataKept ==
  \A folder \in DOMAIN disk :
    HasMetadata(disk, folder) => disk'[folder][MetadataFile] = disk[folder][MetadataFile]

\* The step is the return of invocation c, whose folder is folder.
Returns(c, folder) ==
  calls[c].pc = "running" /\ calls'[c].pc = "returned" /\ calls[c].folder = folder

====
